---- MODULE Spec2Model ----
(***************************************************************************)
(* The EU Call Finder workflow (2_orchestration/master_agent.py): the      *)
(* LangGraph state machine safety_check -> planner -> retrieval ->         *)
(* analysis -> {planner | reporter} -> END over WorkflowState              *)
(* (contracts/state.py), the reflection module                             *)
(* (5_analysis/reflection.py) that decides finalize / expand / refine,     *)
(* the eligibility filters (5_analysis/eligibility.py) and the scoring     *)
(* engine (5_analysis/scorer.py).                                          *)
(*                                                                         *)
(* Scores are kept in tenths (8.0 is 80), averages in hundredths and the   *)
(* portal coverage in percent, so that every comparison of the source is   *)
(* an exact integer comparison.                                            *)
(***************************************************************************)
EXTENDS Integers, Sequences, FiniteSets, TLC

(* ------------------------------ bounds -------------------------------- *)

\* planner_node executions recorded by the history counter planner_runs
MaxPlannerRuns == 5
\* size of a hand-built scraped_topics batch given to analysis_node
MaxTopics == 5
\* size of a batch given to reflect_on_results directly
MaxFound == 10
\* largest iteration value given to reflect_on_results directly
MaxIteration == 4
\* size of a batch analysed with per-record outcomes
MaxBatch == 3

\* marker messages one workflow run prints
MaxPrints == 2
\* days that pass between two calls of score_call
MaxClock == 3
\* largest amount of a budget range
MaxBudget == 6

(* ------------------------- program constants -------------------------- *)

\* create_initial_state: "max_planner_iterations": 3
DefaultMaxIterations == 3
\* retrieval_node: "max_topics": 2
max_topics == 2
\* analysis_node: search_params["max_results"]
AnalysisMaxResults == 30
\* reflect_on_results: s >= 8.0
HighCut == 80
\* reflect_on_results: 6.0 <= s
MediumCut == 60
\* reflect_on_results: s < 5.0
LowCut == 50
\* reflect_on_results: min(min_results, 10)
QuantityCap == 10
\* make_decision: iteration >= 3
DecisionMaxIterations == 3
\* make_decision: avg_score < 4.0 (hundredths)
PoorAverage == 400
\* make_decision: total_found >= 5
PoorMinFound == 5
\* make_decision: portal_coverage < 0.5 (percent)
LowCoverage == 50
\* make_decision: iteration < 2
EarlyIteration == 2
\* safety_check_node: len(description) >= 20
MinDescription == 20
\* InputValidator._basic_validation: len(name.strip()) < 2
MinName == 2

(* ------------------------------ helpers ------------------------------- *)

Min(a, b) == IF a <= b THEN a ELSE b

RECURSIVE SumScores(_)
SumScores(scores) ==
    IF scores = <<>> THEN 0 ELSE Head(scores) + SumScores(Tail(scores))

RECURSIVE MaxScore(_)
MaxScore(scores) ==
    IF scores = <<>> THEN 0
    ELSE LET m == MaxScore(Tail(scores))
         IN  IF Head(scores) >= m THEN Head(scores) ELSE m

\* the score values a record can carry (tenths): poor, neutral, medium, high
ScoreValues == {30, 50, 70, 85}

Portals == {"ftop", "eufunds_bg"}

(* ---------------------- 5_analysis/reflection.py ---------------------- *)

\* make_decision with the zero-results rule dropped
make_decision_nozero(iteration, total_found, min_results, high_count, medium_count, low_count, avg_score, max_score, sufficient_quality, sufficient_quantity, portal_coverage) ==
    IF iteration >= DecisionMaxIterations
    THEN [action |-> "finalize", rule |-> 1, recommendations |-> 2]
    ELSE IF avg_score < PoorAverage /\ total_found >= PoorMinFound
    THEN [action |-> "refine", rule |-> 3, recommendations |-> 4]
    ELSE IF portal_coverage < LowCoverage /\ iteration < EarlyIteration
    THEN [action |-> "expand", rule |-> 4, recommendations |-> 3]
    ELSE IF sufficient_quality /\ ~sufficient_quantity /\ iteration < EarlyIteration
    THEN [action |-> "expand", rule |-> 5, recommendations |-> 3]
    ELSE IF sufficient_quality /\ sufficient_quantity
    THEN [action |-> "finalize", rule |-> 6, recommendations |-> 3]
    ELSE [action |-> "finalize", rule |-> 7, recommendations |-> 2]

\* make_decision with the coverage rule tested after the quantity rule
make_decision_swapped(iteration, total_found, min_results, high_count, medium_count, low_count, avg_score, max_score, sufficient_quality, sufficient_quantity, portal_coverage) ==
    IF iteration >= DecisionMaxIterations
    THEN [action |-> "finalize", rule |-> 1, recommendations |-> 2]
    ELSE IF total_found = 0
    THEN [action |-> "expand", rule |-> 2, recommendations |-> 3]
    ELSE IF avg_score < PoorAverage /\ total_found >= PoorMinFound
    THEN [action |-> "refine", rule |-> 3, recommendations |-> 4]
    ELSE IF sufficient_quality /\ sufficient_quantity
    THEN [action |-> "finalize", rule |-> 6, recommendations |-> 3]
    ELSE IF portal_coverage < LowCoverage /\ iteration < EarlyIteration
    THEN [action |-> "expand", rule |-> 4, recommendations |-> 3]
    ELSE IF sufficient_quality /\ ~sufficient_quantity /\ iteration < EarlyIteration
    THEN [action |-> "expand", rule |-> 5, recommendations |-> 3]
    ELSE [action |-> "finalize", rule |-> 7, recommendations |-> 2]

\* make_decision with rule 5 not limited to the early iterations
make_decision_late_expand(iteration, total_found, min_results, high_count, medium_count, low_count, avg_score, max_score, sufficient_quality, sufficient_quantity, portal_coverage) ==
    IF iteration >= DecisionMaxIterations
    THEN [action |-> "finalize", rule |-> 1, recommendations |-> 2]
    ELSE IF total_found = 0
    THEN [action |-> "expand", rule |-> 2, recommendations |-> 3]
    ELSE IF avg_score < PoorAverage /\ total_found >= PoorMinFound
    THEN [action |-> "refine", rule |-> 3, recommendations |-> 4]
    ELSE IF portal_coverage < LowCoverage /\ iteration < EarlyIteration
    THEN [action |-> "expand", rule |-> 4, recommendations |-> 3]
    ELSE IF sufficient_quality /\ ~sufficient_quantity
    THEN [action |-> "expand", rule |-> 5, recommendations |-> 3]
    ELSE IF sufficient_quality /\ sufficient_quantity
    THEN [action |-> "finalize", rule |-> 6, recommendations |-> 3]
    ELSE [action |-> "finalize", rule |-> 7, recommendations |-> 2]

\* make_decision: the first matching rule wins; "rule" numbers the return
\* statement taken and "recommendations" is the length of the list returned
\* make_decision with rule 3 for any number of results
make_decision_refine_any(iteration, total_found, min_results, high_count, medium_count, low_count, avg_score, max_score, sufficient_quality, sufficient_quantity, portal_coverage) ==
    IF iteration >= DecisionMaxIterations
    THEN [action |-> "finalize", rule |-> 1, recommendations |-> 2]
    ELSE IF total_found = 0
    THEN [action |-> "expand", rule |-> 2, recommendations |-> 3]
    ELSE IF avg_score < PoorAverage
    THEN [action |-> "refine", rule |-> 3, recommendations |-> 4]
    ELSE IF portal_coverage < LowCoverage /\ iteration < EarlyIteration
    THEN [action |-> "expand", rule |-> 4, recommendations |-> 3]
    ELSE IF sufficient_quality /\ ~sufficient_quantity /\ iteration < EarlyIteration
    THEN [action |-> "expand", rule |-> 5, recommendations |-> 3]
    ELSE IF sufficient_quality /\ sufficient_quantity
    THEN [action |-> "finalize", rule |-> 6, recommendations |-> 3]
    ELSE [action |-> "finalize", rule |-> 7, recommendations |-> 2]

\* make_decision with the retry action of its docstring for uncovered portals
make_decision_retry(iteration, total_found, min_results, high_count, medium_count, low_count, avg_score, max_score, sufficient_quality, sufficient_quantity, portal_coverage) ==
    IF iteration >= DecisionMaxIterations
    THEN [action |-> "finalize", rule |-> 1, recommendations |-> 2]
    ELSE IF total_found = 0
    THEN [action |-> "expand", rule |-> 2, recommendations |-> 3]
    ELSE IF avg_score < PoorAverage /\ total_found >= PoorMinFound
    THEN [action |-> "refine", rule |-> 3, recommendations |-> 4]
    ELSE IF portal_coverage < LowCoverage /\ iteration < EarlyIteration
    THEN [action |-> "retry", rule |-> 4, recommendations |-> 3]
    ELSE IF sufficient_quality /\ ~sufficient_quantity /\ iteration < EarlyIteration
    THEN [action |-> "expand", rule |-> 5, recommendations |-> 3]
    ELSE IF sufficient_quality /\ sufficient_quantity
    THEN [action |-> "finalize", rule |-> 6, recommendations |-> 3]
    ELSE [action |-> "finalize", rule |-> 7, recommendations |-> 2]

make_decision(iteration, total_found, min_results, high_count, medium_count, low_count, avg_score, max_score, sufficient_quality, sufficient_quantity, portal_coverage) ==
    IF iteration >= DecisionMaxIterations
    THEN [action |-> "finalize", rule |-> 1, recommendations |-> 2]
    ELSE IF total_found = 0
    THEN [action |-> "expand", rule |-> 2, recommendations |-> 3]
    ELSE IF avg_score < PoorAverage /\ total_found >= PoorMinFound
    THEN [action |-> "refine", rule |-> 3, recommendations |-> 4]
    ELSE IF portal_coverage < LowCoverage /\ iteration < EarlyIteration
    THEN [action |-> "expand", rule |-> 4, recommendations |-> 3]
    ELSE IF sufficient_quality /\ ~sufficient_quantity /\ iteration < EarlyIteration
    THEN [action |-> "expand", rule |-> 5, recommendations |-> 3]
    ELSE IF sufficient_quality /\ sufficient_quantity
    THEN [action |-> "finalize", rule |-> 6, recommendations |-> 3]
    ELSE [action |-> "finalize", rule |-> 7, recommendations |-> 2]

\* reflect_on_results(results, search_params, iteration): results is a
\* sequence of records with relevance_score and portal (info.portal, "" when
\* the record has none); search_params has max_results and portals
reflect_on_results(results, search_params, iteration) ==
    LET total_found == Len(results)
        min_results == search_params.max_results
        scores == [i \in 1..Len(results) |-> results[i].relevance_score]
        high_scores == {i \in 1..Len(results) : scores[i] >= HighCut}
        medium_scores == {i \in 1..Len(results) :
                             MediumCut <= scores[i] /\ scores[i] < HighCut}
        low_scores == {i \in 1..Len(results) : scores[i] < LowCut}
        avg_score == IF total_found > 0
                     THEN (SumScores(scores) * 10) \div total_found ELSE 0
        max_score == MaxScore(scores)
        sufficient_quality ==
            Cardinality(high_scores) >= 2
            \/ (Cardinality(high_scores) >= 1 /\ Cardinality(medium_scores) >= 3)
        sufficient_quantity == total_found >= Min(min_results, QuantityCap)
        portals_covered == {results[i].portal : i \in 1..Len(results)} \ {""}
        target_portals == search_params.portals
        portal_coverage ==
            IF target_portals # {}
            THEN (100 * Cardinality(portals_covered)) \div Cardinality(target_portals)
            ELSE 100
        decision == make_decision(iteration, total_found, min_results,
                                  Cardinality(high_scores), Cardinality(medium_scores),
                                  Cardinality(low_scores), avg_score, max_score,
                                  sufficient_quality, sufficient_quantity,
                                  portal_coverage)
    IN  [decision |-> decision.action,
         rule |-> decision.rule,
         recommendations |-> decision.recommendations,
         stats |-> [total_results |-> total_found,
                    high_scores |-> Cardinality(high_scores),
                    medium_scores |-> Cardinality(medium_scores),
                    low_scores |-> Cardinality(low_scores),
                    max_score |-> max_score]]

(* ------------------------- contracts/state.py -------------------------- *)

VARIABLES
    company_input,           \* the caller's profile (abstracted, see CompanyInputs)
    safety_check_passed,
    planner_iterations,
    max_planner_iterations,
    scraper_plan,            \* "none" or "plan"
    plan_approved,
    plan_feedback,           \* "none", "no_topics" or "refine"
    scraped_topics,          \* sequence of [id, score]
    retrieval_errors,        \* number of recorded retrieval errors (0 or 1)
    analyzed_calls,          \* sequence of [id, relevance_score, portal]
    analysis_summary,        \* "none" or the record reflect_on_results returned
    final_report,            \* "none", "llm" or "fallback"
    current_step,
    workflow_status,
    error_message,
    pc,                      \* the graph node to run next, "END" or "raised"
    planner_runs,            \* history: executions of planner_node
    planner_feedback_in,     \* history: previous_feedback of the last Planner call
    last_node,               \* history: the node that returned last
    last_decision,           \* history: reflection decision of the last analysis_node
    reflect_in,              \* input of a direct reflect_on_results call
    reflect_out,             \* its result, "none" before the call
    analyzed_history,        \* history: ids of the topics analysis_node analysed
    record_faults,           \* environment: what fails for the i-th record of a batch
    eligibility_in,          \* input of a direct apply_eligibility_filters call
    eligibility_out,         \* its result, "none" before the call
    score_in,                \* input of a direct score_call call
    score_out,               \* its result, "none" before the call
    clock,                   \* environment: the day datetime.now() falls on
    score_out_again,         \* result of a second score_call on score_in
    builtins_print,          \* the process-wide builtins.print
    original_print,          \* per run: the original_print its thread saved
    thread_pc,               \* per run: position of run_workflow_with_progress
    progress_queue,          \* per run: the items on its progress_queue
    result_holder,           \* per run: [result, error]
    stream_pc,               \* per run: position of event_stream
    stream_events,           \* per run: the events event_stream has yielded
    put_history              \* history, per run: every item put on its queue, and when

vars == <<company_input, safety_check_passed, planner_iterations,
          max_planner_iterations, scraper_plan, plan_approved, plan_feedback,
          scraped_topics, retrieval_errors, analyzed_calls, analysis_summary,
          final_report, current_step, workflow_status, error_message, pc,
          planner_runs, planner_feedback_in, last_node, last_decision,
          reflect_in, reflect_out,
                   analyzed_history, record_faults,
                   eligibility_in, eligibility_out, score_in, score_out,
          clock, score_out_again, builtins_print, original_print, thread_pc,
          progress_queue, result_holder, stream_pc, stream_events, put_history>>

\* the variables of WorkflowState, of the history and of the direct calls
workflow_vars == <<company_input, safety_check_passed, planner_iterations,
                   max_planner_iterations, scraper_plan, plan_approved, plan_feedback,
                   scraped_topics, retrieval_errors, analyzed_calls, analysis_summary,
                   final_report, current_step, workflow_status, error_message, pc,
                   planner_runs, planner_feedback_in, last_node, last_decision,
                   reflect_in, reflect_out, analyzed_history, record_faults,
                   eligibility_in, eligibility_out, score_in, score_out>>

\* the variables of a repeated score_call
repeat_vars == <<clock, score_out_again>>

\* the variables of the /search/stream requests
stream_vars == <<builtins_print, original_print, thread_pc, progress_queue,
                 result_holder, stream_pc, stream_events, put_history>>

\* A profile is abstracted to what safety_check_node and the validators read:
\* shape "empty" is {} (falsy), "dict" a plain dict, "object" a CompanyInput;
\* desc_len is len(description), desc_ws the leading/trailing blanks in it;
\* threat says a suspicious pattern occurs in the profile's text.
CompanyInputs ==
    {[shape |-> "empty", name_len |-> 0, desc_len |-> 0, desc_ws |-> 0,
      n_domains |-> 0, employees |-> 0, threat |-> FALSE]}
    \cup [shape : {"dict", "object"}, name_len : {0, 1, 5}, desc_len : {10, 20, 24},
          desc_ws : {0, 5}, n_domains : {0, 1}, employees : {0, 25},
          threat : BOOLEAN]

NoReflectIn == [results |-> <<>>, search_params |-> [max_results |-> 0, portals |-> {}],
                iteration |-> 0, max_iterations |-> 0]

\* no direct call of apply_eligibility_filters or score_call is under way
NoDirectCalls ==
    /\ eligibility_in = "none"
    /\ eligibility_out = "none"
    /\ score_in = "none"
    /\ score_out = "none"

\* builtins.print when no request has patched it
builtin_print == [kind |-> "builtin", run |-> 0]

\* no score_call is being repeated
NoRepeatCall ==
    /\ clock = 0
    /\ score_out_again = "none"

\* no /search/stream request is under way
NoStream ==
    /\ builtins_print = builtin_print
    /\ original_print = <<>>
    /\ thread_pc = <<>>
    /\ progress_queue = <<>>
    /\ result_holder = <<>>
    /\ stream_pc = <<>>
    /\ stream_events = <<>>
    /\ put_history = <<>>

\* create_initial_state(company_input)
create_initial_state(input) ==
    /\ company_input = input
    /\ safety_check_passed = FALSE
    /\ planner_iterations = 0
    /\ max_planner_iterations = DefaultMaxIterations
    /\ scraper_plan = "none"
    /\ plan_approved = FALSE
    /\ plan_feedback = "none"
    /\ scraped_topics = <<>>
    /\ retrieval_errors = 0
    /\ analyzed_calls = <<>>
    /\ analysis_summary = "none"
    /\ final_report = "none"
    /\ current_step = "safety_check"
    /\ workflow_status = "running"
    /\ error_message = "none"

\* run_workflow: the compiled graph starts at its entry point
Init ==
    /\ \E input \in CompanyInputs : create_initial_state(input)
    /\ pc = "safety_check"
    /\ planner_runs = 0
    /\ planner_feedback_in = "none"
    /\ last_node = "none"
    /\ last_decision = "none"
    /\ reflect_in = NoReflectIn
    /\ reflect_out = "none"
    /\ analyzed_history = {}
    /\ record_faults = <<>>
    /\ NoDirectCalls
    /\ NoRepeatCall
    /\ NoStream

(* ----------------- 2_orchestration/master_agent.py -------------------- *)

\* should_continue_after_safety
should_continue_after_safety(passed) == IF passed THEN "planner" ELSE "END"

\* the routing function ignoring plan_approved
should_continue_to_reporter(approved) == "reporter"

\* should_continue_after_analysis
should_continue_after_analysis(approved) == IF approved THEN "reporter" ELSE "planner"

\* the dict branch of safety_check_node's validation
dict_validation_passed(company) ==
    LET has_name == company.name_len > 0
        has_description == company.desc_len >= MinDescription
        has_domains == company.n_domains > 0
    IN  has_name /\ has_description /\ has_domains

\* InputValidator._basic_validation on a CompanyInput object
basic_validation(company) ==
    /\ ~(company.name_len < MinName)
    /\ ~(company.desc_len - company.desc_ws < MinDescription)
    /\ ~(company.employees < 1)
    /\ ~(company.n_domains = 0)

SafetyFails(msg) ==
    /\ safety_check_passed' = FALSE
    /\ workflow_status' = "failed"
    /\ error_message' = msg
    /\ current_step' = "failed"

\* Node 1 and its conditional edge.  llm_rejects: InputValidator's optional LLM
\* validation (or a check this model does not detail) rejects a CompanyInput
\* object; raises: an exception inside the node's try block.
safety_check_node ==
    /\ pc = "safety_check"
    /\ \E llm_rejects \in BOOLEAN, raises \in BOOLEAN :
         IF company_input.shape = "empty"
         THEN SafetyFails("No company input provided")
         ELSE IF raises
         THEN SafetyFails("Safety check error")
         ELSE IF company_input.threat
         THEN SafetyFails("Safety check failed")
         ELSE IF company_input.shape = "dict"
         THEN IF ~dict_validation_passed(company_input)
              THEN SafetyFails("Validation failed")
              ELSE /\ safety_check_passed' = TRUE
                   /\ current_step' = "planning"
                   /\ workflow_status' = "running"
                   /\ UNCHANGED error_message
         ELSE IF ~basic_validation(company_input) \/ llm_rejects
              THEN SafetyFails("Validation failed")
              ELSE /\ safety_check_passed' = TRUE
                   /\ current_step' = "planning"
                   /\ workflow_status' = "running"
                   /\ UNCHANGED error_message
    /\ pc' = should_continue_after_safety(safety_check_passed')
    /\ last_node' = "safety_check"
    /\ UNCHANGED <<company_input, planner_iterations, max_planner_iterations,
                   scraper_plan, plan_approved, plan_feedback, scraped_topics,
                   retrieval_errors, analyzed_calls, analysis_summary, final_report,
                   planner_runs, planner_feedback_in, last_decision,
                   reflect_in, reflect_out,
                   analyzed_history, record_faults,
                   eligibility_in, eligibility_out, score_in, repeat_vars, stream_vars, score_out>>

\* Node 2 and the edge planner -> retrieval.  The Planner (create_smart_plan)
\* either returns a plan or raises.
planner_node ==
    /\ pc = "planner"
    /\ planner_runs < MaxPlannerRuns
    /\ planner_runs' = planner_runs + 1
    /\ planner_feedback_in' = plan_feedback
    /\ \/ /\ scraper_plan' = "plan"
          /\ planner_iterations' = planner_iterations + 1
          /\ current_step' = "retrieval"
          /\ workflow_status' = "running"
          /\ UNCHANGED error_message
       \/ /\ workflow_status' = "failed"
          /\ error_message' = "Planning error"
          /\ current_step' = "failed"
          /\ UNCHANGED <<scraper_plan, planner_iterations>>
    /\ pc' = "retrieval"
    /\ last_node' = "planner"
    /\ UNCHANGED <<company_input, safety_check_passed, max_planner_iterations,
                   plan_approved, plan_feedback, scraped_topics, retrieval_errors,
                   analyzed_calls, analysis_summary, final_report, last_decision,
                   reflect_in, reflect_out,
                   analyzed_history, record_faults,
                   eligibility_in, eligibility_out, score_in, repeat_vars, stream_vars, score_out>>

\* what scrape_topics_node can return under "max_topics": 2: at most max_topics
\* topics with distinct identifiers (unique_topics_map), each with the total
\* score_call gives it for the run's profile
TopicIds == 1..3

RetrievedBatches ==
    {<<>>}
    \cup {<<[id |-> i, score |-> s]>> : i \in TopicIds, s \in ScoreValues}
    \cup {<<[id |-> i, score |-> s], [id |-> j, score |-> t]>> :
            i \in TopicIds, j \in TopicIds, s \in ScoreValues, t \in ScoreValues}

\* Node 3 and the edge retrieval -> analysis
retrieval_node ==
    /\ pc = "retrieval"
    /\ \/ /\ \E topics \in RetrievedBatches :
               /\ Len(topics) <= max_topics
               /\ \A i, j \in 1..Len(topics) : i < j => topics[i].id < topics[j].id
               /\ scraped_topics' = topics
          /\ current_step' = "analysis"
          /\ workflow_status' = "running"
          /\ UNCHANGED <<retrieval_errors, error_message>>
       \/ /\ retrieval_errors' = 1
          /\ workflow_status' = "failed"
          /\ error_message' = "Retrieval error"
          /\ current_step' = "failed"
          /\ UNCHANGED scraped_topics
    /\ pc' = "analysis"
    /\ last_node' = "retrieval"
    /\ UNCHANGED <<company_input, safety_check_passed, planner_iterations,
                   max_planner_iterations, scraper_plan, plan_approved, plan_feedback,
                   analyzed_calls, analysis_summary, final_report, planner_runs,
                   planner_feedback_in, last_decision, reflect_in, reflect_out,
                   analyzed_history, record_faults,
                   eligibility_in, eligibility_out, score_in, repeat_vars, stream_vars, score_out>>

\* what the environment does while analysis_node evaluates one record: the
\* Reasoning Service answers (llm_ok), is not configured, or raises inside
\* call_llm_for_analysis; perform_qualitative_analysis itself raises;
\* score_call raises; apply_eligibility_filters raises
RecordOutcomes ==
    {"llm_ok", "llm_unconfigured", "llm_raises", "critic_raises", "score_raises",
     "eligibility_raises"}

\* the outcome for the i-th record of a batch
OutcomeAt(i) == IF i <= Len(record_faults) THEN record_faults[i] ELSE "llm_ok"

\* perform_qualitative_analysis: the analysis_method of the dict it returns
perform_qualitative_analysis(outcome) ==
    IF outcome \in {"llm_unconfigured", "llm_raises"} THEN "rule_based" ELSE "llm"

\* analysis_node, step 2: the try around perform_qualitative_analysis
qualitative_method(outcome) ==
    IF outcome = "critic_raises" THEN "error" ELSE perform_qualitative_analysis(outcome)

\* score_call: the scoring_method chosen from the insights' analysis_method
score_call_method(analysis_method) ==
    IF analysis_method = "llm" THEN "llm_enhanced" ELSE "rule_based"

\* analysis_node, step 3: the "total" of the except branch (5.0)
NeutralScore == 50

\* analyzed_call with the portal of the topic carried over
analyzed_call_with_portal(topic, outcome) ==
    [id |-> topic.id,
     relevance_score |-> IF outcome = "score_raises" THEN NeutralScore ELSE topic.score,
     portal |-> "ftop",
     analysis_method |-> qualitative_method(outcome),
     scoring_method |-> IF outcome = "score_raises" THEN "none"
                        ELSE score_call_method(qualitative_method(outcome))]

\* the analyzed_call record analysis_node builds for one topic: it has no
\* "info" key, so reflect_on_results reads its portal as ""; scoring_method
\* is the one of the scoring dict used ("none" for the except branch's dict)
analyzed_call(topic, outcome) ==
    [id |-> topic.id,
     relevance_score |-> IF outcome = "score_raises" THEN NeutralScore ELSE topic.score,
     portal |-> "",
     analysis_method |-> qualitative_method(outcome),
     scoring_method |-> IF outcome = "score_raises" THEN "none"
                        ELSE score_call_method(qualitative_method(outcome))]

\* analysis_node's search_params
analysis_search_params == [max_results |-> AnalysisMaxResults, portals |-> Portals]

\* the final branch without the test of the iteration bound
analysis_routes_unbounded(decision, iterations, max_iterations) ==
    IF decision = "finalize" THEN TRUE
    ELSE IF decision = "refine" THEN FALSE
    ELSE TRUE

\* the final branch with refine handled like expand
analysis_routes_refine_on(decision, iterations, max_iterations) ==
    IF decision = "finalize" \/ iterations >= max_iterations THEN TRUE
    ELSE TRUE

\* the final branch with expand handled like refine
analysis_routes_expand_back(decision, iterations, max_iterations) ==
    IF decision = "finalize" \/ iterations >= max_iterations THEN TRUE
    ELSE FALSE

\* the final branch of analysis_node, on the reflection's decision
analysis_routes_to_reporting(decision, iterations, max_iterations) ==
    IF decision = "finalize" \/ iterations >= max_iterations THEN TRUE
    ELSE IF decision = "refine" THEN FALSE
    ELSE TRUE

\* Node 4 and its conditional edge
analysis_node ==
    /\ pc = "analysis"
    /\ company_input.shape # "object" \/ Len(scraped_topics) = 0
    /\ \A i \in 1..Len(scraped_topics) : OutcomeAt(i) # "eligibility_raises"
    /\ IF Len(scraped_topics) = 0
       THEN /\ IF planner_iterations < max_planner_iterations
               THEN /\ plan_approved' = FALSE
                    /\ plan_feedback' = "no_topics"
                    /\ current_step' = "planning"
                    /\ UNCHANGED analyzed_calls
               ELSE /\ plan_approved' = TRUE
                    /\ analyzed_calls' = <<>>
                    /\ current_step' = "reporting"
                    /\ UNCHANGED plan_feedback
            /\ last_decision' = "none"
            /\ UNCHANGED <<analysis_summary, analyzed_history>>
       ELSE LET calls == [i \in 1..Len(scraped_topics) |->
                             analyzed_call(scraped_topics[i], OutcomeAt(i))]
                reflection == reflect_on_results(calls, analysis_search_params,
                                                 planner_iterations)
                approved == analysis_routes_to_reporting(reflection.decision,
                                planner_iterations, max_planner_iterations)
            IN  /\ analyzed_calls' = calls
                /\ analyzed_history' =
                      analyzed_history \cup {calls[i].id : i \in 1..Len(calls)}
                /\ analysis_summary' = reflection
                /\ last_decision' = reflection.decision
                /\ plan_approved' = approved
                /\ IF approved
                   THEN /\ current_step' = "reporting"
                        /\ UNCHANGED plan_feedback
                   ELSE /\ current_step' = "planning"
                        /\ plan_feedback' = "refine"
    /\ workflow_status' = "running"
    /\ pc' = should_continue_after_analysis(plan_approved')
    /\ last_node' = "analysis"
    /\ UNCHANGED <<company_input, safety_check_passed, planner_iterations,
                   max_planner_iterations, scraper_plan, scraped_topics,
                   retrieval_errors, final_report, error_message, planner_runs,
                   planner_feedback_in, reflect_in, reflect_out, record_faults,
                   eligibility_in, eligibility_out, score_in, repeat_vars, stream_vars, score_out>>

\* analysis_node on a non-empty batch when company_input is a CompanyInput
\* object (company_input.get raises AttributeError) or when
\* apply_eligibility_filters raises for a record: the call is in no try block
\* and no node catches the exception
analysis_node_raises ==
    /\ pc = "analysis"
    /\ Len(scraped_topics) > 0
    /\ \/ company_input.shape = "object"
       \/ \E i \in 1..Len(scraped_topics) : OutcomeAt(i) = "eligibility_raises"
    /\ pc' = "raised"
    /\ UNCHANGED <<company_input, safety_check_passed, planner_iterations,
                   max_planner_iterations, scraper_plan, plan_approved, plan_feedback,
                   scraped_topics, retrieval_errors, analyzed_calls, analysis_summary,
                   final_report, current_step, workflow_status, error_message,
                   planner_runs, planner_feedback_in, last_node, last_decision,
                   reflect_in, reflect_out,
                   analyzed_history, record_faults,
                   eligibility_in, eligibility_out, score_in, repeat_vars, stream_vars, score_out>>

\* reporter_node without the except branch's report
reporter_report_unguarded(raises) == IF raises THEN "none" ELSE "llm"

\* reporter_node: the report it stores, "llm" for what
\* generate_comprehensive_report returns, "fallback" for the report the
\* except branch builds when that call (or the debug dump) raises
reporter_report(raises) == IF raises THEN "fallback" ELSE "llm"

\* Node 5 and the edge reporter -> END: the report is the LLM one, or the
\* fallback one when generate_comprehensive_report raises
reporter_node ==
    /\ pc = "reporter"
    /\ \E raises \in BOOLEAN : final_report' = reporter_report(raises)
    /\ workflow_status' = "completed"
    /\ current_step' = "END"
    /\ pc' = "END"
    /\ last_node' = "reporter"
    /\ UNCHANGED <<company_input, safety_check_passed, planner_iterations,
                   max_planner_iterations, scraper_plan, plan_approved, plan_feedback,
                   scraped_topics, retrieval_errors, analyzed_calls, analysis_summary,
                   error_message, planner_runs, planner_feedback_in, last_decision,
                   reflect_in, reflect_out,
                   analyzed_history, record_faults,
                   eligibility_in, eligibility_out, score_in, repeat_vars, stream_vars, score_out>>

\* create_workflow: the five nodes and their edges
Next ==
    \/ safety_check_node
    \/ planner_node
    \/ retrieval_node
    \/ analysis_node
    \/ analysis_node_raises
    \/ reporter_node

Spec == Init /\ [][Next]_vars

(* --------------- analysis_node on a hand-built state ------------------ *)

Repeat(x, n) == [i \in 1..n |-> x]

\* the scores of a batch with a records of 3.0, b of 5.0, c of 7.0, d of 8.5
BatchScores(a, b, c, d) == Repeat(30, a) \o Repeat(50, b) \o Repeat(70, c) \o Repeat(85, d)

BatchesUpTo(n) ==
    {BatchScores(a, b, c, d) : a \in 0..n, b \in 0..n, c \in 0..n, d \in 0..n}

\* scraped_topics lists of up to MaxTopics topics
HandBuiltTopics ==
    {[i \in 1..Len(scores) |-> [id |-> i, score |-> scores[i]]] :
        scores \in {b \in BatchesUpTo(MaxTopics) : Len(b) <= MaxTopics}}

\* test_analysis_decision / test_analysis_loop: create_initial_state({}) with
\* scraped_topics, planner_iterations and max_planner_iterations overwritten,
\* handed to analysis_node; the graph then runs on from that node
InitNode ==
    /\ company_input \in {c \in CompanyInputs : c.shape = "empty"}
    /\ safety_check_passed = FALSE
    /\ planner_iterations \in 0..MaxIteration
    /\ max_planner_iterations \in 2..MaxIteration
    /\ scraper_plan = "none"
    /\ plan_approved = FALSE
    /\ plan_feedback = "none"
    /\ scraped_topics \in HandBuiltTopics
    /\ retrieval_errors = 0
    /\ analyzed_calls = <<>>
    /\ analysis_summary = "none"
    /\ final_report = "none"
    /\ current_step = "safety_check"
    /\ workflow_status = "running"
    /\ error_message = "none"
    /\ pc = "analysis"
    /\ planner_runs = 0
    /\ planner_feedback_in = "none"
    /\ last_node = "none"
    /\ last_decision = "none"
    /\ reflect_in = NoReflectIn
    /\ reflect_out = "none"
    /\ analyzed_history = {}
    /\ record_faults = <<>>
    /\ NoDirectCalls
    /\ NoRepeatCall
    /\ NoStream

NextNode ==
    \/ analysis_node
    \/ planner_node
    \/ retrieval_node
    \/ reporter_node

SpecNode == InitNode /\ [][NextNode]_vars

(* ---------------- reflect_on_results called directly ------------------ *)

\* the portal of the i-th record of a batch in which the portals of covered
\* are represented ("" when the record names none)
PortalOf(covered, i) ==
    IF covered = {} THEN ""
    ELSE IF covered = Portals THEN (IF i % 2 = 1 THEN "ftop" ELSE "eufunds_bg")
    ELSE CHOOSE p \in covered : TRUE

ResultBatches ==
    {[i \in 1..Len(scores) |->
         [id |-> i, relevance_score |-> scores[i], portal |-> PortalOf(covered, i)]] :
        scores \in {b \in BatchesUpTo(MaxFound) : Len(b) <= MaxFound},
        covered \in {{}, {"ftop"}, Portals}}

\* target configurations: the wanted quantity and the portal list
SearchParams == [max_results : {3, 30}, portals : {{}, Portals}]

InitReflect ==
    /\ create_initial_state(CHOOSE c \in CompanyInputs : c.shape = "empty")
    /\ pc = "reflect"
    /\ planner_runs = 0
    /\ planner_feedback_in = "none"
    /\ last_node = "none"
    /\ last_decision = "none"
    /\ reflect_in \in [results : ResultBatches, search_params : SearchParams,
                       iteration : (-1)..MaxIteration,
                       max_iterations : 2..MaxIteration]
    /\ reflect_out = "none"
    /\ analyzed_history = {}
    /\ record_faults = <<>>
    /\ NoDirectCalls
    /\ NoRepeatCall
    /\ NoStream

\* one call reflect_on_results(results, search_params, iteration)
reflect_call ==
    /\ pc = "reflect"
    /\ reflect_out' = reflect_on_results(reflect_in.results, reflect_in.search_params,
                                         reflect_in.iteration)
    /\ pc' = "reflected"
    /\ UNCHANGED <<company_input, safety_check_passed, planner_iterations,
                   max_planner_iterations, scraper_plan, plan_approved, plan_feedback,
                   scraped_topics, retrieval_errors, analyzed_calls, analysis_summary,
                   final_report, current_step, workflow_status, error_message,
                   planner_runs, planner_feedback_in, last_node, last_decision,
                   reflect_in, analyzed_history, record_faults,
                   eligibility_in, eligibility_out, score_in, repeat_vars, stream_vars, score_out>>

NextReflect == reflect_call

SpecReflect == InitReflect /\ [][NextReflect]_vars

(* ------------ analysis_node with per-record failures ------------------ *)

\* scraped_topics lists of up to MaxBatch topics
BatchTopics ==
    {[i \in 1..Len(scores) |-> [id |-> i, score |-> scores[i]]] :
        scores \in {b \in BatchesUpTo(MaxBatch) : Len(b) <= MaxBatch}}

\* analysis_node on create_initial_state({}) with scraped_topics overwritten,
\* where each record of the batch meets one of the RecordOutcomes
InitBatch ==
    /\ company_input \in {c \in CompanyInputs : c.shape = "empty"}
    /\ safety_check_passed = FALSE
    /\ planner_iterations = 0
    /\ max_planner_iterations = DefaultMaxIterations
    /\ scraper_plan = "none"
    /\ plan_approved = FALSE
    /\ plan_feedback = "none"
    /\ retrieval_errors = 0
    /\ analyzed_calls = <<>>
    /\ analysis_summary = "none"
    /\ final_report = "none"
    /\ current_step = "safety_check"
    /\ workflow_status = "running"
    /\ error_message = "none"
    /\ pc = "analysis"
    /\ planner_runs = 0
    /\ planner_feedback_in = "none"
    /\ last_node = "none"
    /\ last_decision = "none"
    /\ reflect_in = NoReflectIn
    /\ reflect_out = "none"
    /\ analyzed_history = {}
    /\ \E topics \in BatchTopics :
          /\ scraped_topics = topics
          /\ record_faults \in [1..Len(topics) -> RecordOutcomes]
    /\ NoDirectCalls
    /\ NoRepeatCall
    /\ NoStream

NextBatch ==
    \/ analysis_node
    \/ analysis_node_raises
    \/ planner_node
    \/ retrieval_node
    \/ reporter_node

SpecBatch == InitBatch /\ [][NextBatch]_vars

(* --------------------- 5_analysis/eligibility.py ---------------------- *)

\* A key of the record is absent or present with a value; Get is dict.get
Absent(default) == [present |-> FALSE, value |-> default]
Given(v) == [present |-> TRUE, value |-> v]
Get(field, default) == IF field.present THEN field.value ELSE default

\* str.upper() on the type names used
Upper(s) ==
    CASE s = "sme" -> "SME" [] s = "Large" -> "LARGE" [] s = "university" -> "UNIVERSITY"
      [] OTHER -> s

\* str.lower().strip() on the country names used
LowerStrip(s) ==
    CASE s = " Bulgaria " -> "bulgaria" [] s = "Bulgaria" -> "bulgaria"
      [] s = "Republic of Bulgaria" -> "republic of bulgaria"
      [] s = "EU" -> "eu" [] s = "Germany" -> "germany" [] s = "Norway" -> "norway"
      [] OTHER -> s

\* check_organization_type: type_mapping (its Latin-script entries)
type_mapping(company_type) ==
    CASE company_type = "SME" -> {"SME", "SMALL", "MEDIUM", "SMALL AND MEDIUM ENTERPRISE"}
      [] company_type = "SMALL" -> {"SME", "SMALL"}
      [] company_type = "MEDIUM" -> {"SME", "MEDIUM"}
      [] company_type = "LARGE" -> {"LARGE", "BIG ENTERPRISE"}
      [] company_type = "UNIVERSITY" -> {"UNIVERSITY", "ACADEMIC", "RESEARCH"}
      [] company_type = "RESEARCH INSTITUTE" -> {"RESEARCH", "INSTITUTE", "ACADEMIC"}
      [] company_type = "NGO" -> {"NGO", "NON-PROFIT"}
      [] company_type = "PUBLIC" -> {"PUBLIC", "GOVERNMENT"}
      [] company_type = "CLUSTER" -> {"CLUSTER"}
      [] OTHER -> {}

check_organization_type(call_data, company_profile) ==
    LET eligible_types == Get(call_data.eligible_organization_types, {})
        company_type == Upper(company_profile.type)
    IN  IF eligible_types = {} THEN TRUE
        ELSE \E t \in eligible_types :
                \/ company_type = Upper(t)
                \/ Upper(t) \in type_mapping(company_type)

eu_countries ==
    {"austria", "belgium", "bulgaria", "croatia", "cyprus", "czech republic", "czechia",
     "denmark", "estonia", "finland", "france", "germany", "greece", "hungary", "ireland",
     "italy", "latvia", "lithuania", "luxembourg", "malta", "netherlands", "poland",
     "portugal", "romania", "slovakia", "slovenia", "spain", "sweden"}

\* check_country_eligibility without the shortcut for an empty list
check_country_listed(call_data, company_profile) ==
    LET eligible_normalized == {LowerStrip(c) : c \in Get(call_data.eligible_countries, {})}
    IN  LowerStrip(company_profile.country) \in eligible_normalized

check_country_eligibility(call_data, company_profile) ==
    LET eligible_countries == Get(call_data.eligible_countries, {})
        company_country_normalized == LowerStrip(company_profile.country)
        eligible_normalized == {LowerStrip(c) : c \in eligible_countries}
    IN  IF eligible_countries = {} THEN TRUE
        ELSE IF company_country_normalized \in eligible_normalized THEN TRUE
        ELSE IF eligible_normalized
                  \cap {"eu", "european union", "all", "all member states"} # {}
                /\ (company_country_normalized \in eu_countries
                    \/ company_country_normalized \in {"bulgaria", "republic of bulgaria"})
        THEN TRUE
        ELSE FALSE

\* a dict {} (falsy), or one with the keys min and max (amounts in thousands)
EmptyRange == [empty |-> TRUE, min |-> 0, max |-> 0]
Range(lo, hi) == [empty |-> FALSE, min |-> lo, max |-> hi]

\* check_budget_eligibility without the tolerance window
check_budget_eligibility_strict(call_data, company_profile) ==
    LET call_budget == Get(call_data.budget_per_project, EmptyRange)
        preferred_range == company_profile.budget_range
    IN  IF call_budget.empty \/ preferred_range.empty THEN TRUE
        ELSE ~(call_budget.max < preferred_range.min
               \/ call_budget.min > preferred_range.max)

check_budget_eligibility(call_data, company_profile) ==
    LET call_budget == Get(call_data.budget_per_project, EmptyRange)
        preferred_range == company_profile.budget_range
    IN  IF call_budget.empty \/ preferred_range.empty THEN TRUE
        ELSE IF (call_budget.max < preferred_range.min \/ call_budget.min > preferred_range.max)
                /\ (2 * call_budget.max < preferred_range.min
                    \/ call_budget.min > preferred_range.max * 2)
        THEN FALSE
        ELSE TRUE

\* check_trl_compatibility: the parse of the TRL text, "4-7" or "6"; ok is
\* false where int() raises ValueError
ParseTrl(text) ==
    CASE text = "4-7" -> [ok |-> TRUE, min |-> 4, max |-> 7]
      [] text = "1-3" -> [ok |-> TRUE, min |-> 1, max |-> 3]
      [] text = "9" -> [ok |-> TRUE, min |-> 9, max |-> 9]
      [] OTHER -> [ok |-> FALSE, min |-> 0, max |-> 0]

check_trl_compatibility(call_data, company_profile) ==
    LET call_trl == Get(call_data.trl, "")
        company_trl_min == 4
        company_trl_max == 8
    IN  IF call_trl = "" THEN TRUE
        ELSE IF ~ParseTrl(call_trl).ok THEN TRUE
        ELSE IF ParseTrl(call_trl).max < company_trl_min
                \/ ParseTrl(call_trl).min > company_trl_max
        THEN FALSE
        ELSE TRUE

\* a consortium dict: {} or one with the keys min_partners and min_countries
EmptyConsortium == [empty |-> TRUE, min_partners |-> 1, min_countries |-> 1]
Consortium(p, c) == [empty |-> FALSE, min_partners |-> p, min_countries |-> c]

\* check_consortium_feasibility with the size rule for any number of partners
check_consortium_feasibility_size(call_data, company_profile) ==
    LET consortium == Get(call_data.consortium, EmptyConsortium)
        min_partners == IF consortium.empty THEN 1 ELSE consortium.min_partners
        min_countries == IF consortium.empty THEN 1 ELSE consortium.min_countries
    IN  IF min_partners = 1 THEN TRUE
        ELSE IF company_profile.past_eu_projects > 0 THEN TRUE
        ELSE IF company_profile.employees >= 50 THEN TRUE
        ELSE IF min_partners > 10 \/ min_countries > 5 THEN FALSE
        ELSE TRUE

check_consortium_feasibility(call_data, company_profile) ==
    LET consortium == Get(call_data.consortium, EmptyConsortium)
        min_partners == IF consortium.empty THEN 1 ELSE consortium.min_partners
        min_countries == IF consortium.empty THEN 1 ELSE consortium.min_countries
    IN  IF min_partners = 1 THEN TRUE
        ELSE IF company_profile.past_eu_projects > 0 THEN TRUE
        ELSE IF company_profile.employees >= 50 /\ min_partners <= 5 THEN TRUE
        ELSE IF min_partners > 10 \/ min_countries > 5 THEN FALSE
        ELSE TRUE

\* the words check_sme_status looks for that occur in the lowered text
FundingWords(text) ==
    CASE text = "SME participation encouraged" -> {"sme", "encouraged"}
      [] text = "SMEs required" -> {"sme", "required"}
      [] text = "SME mandatory, 70%" -> {"sme", "mandatory", "70%"}
      [] text = "high funding rate" -> {"high"}
      [] OTHER -> {}

check_sme_status(call_data, company_profile) ==
    LET funding_rate == FundingWords(Get(call_data.funding_rate, ""))
        is_sme == Upper(company_profile.type) \in {"SME", "SMALL", "MEDIUM"}
        encouraged == /\ "sme" \in funding_rate
                      /\ funding_rate \cap {"encouraged", "preference", "70%", "high"} # {}
        required == "sme" \in funding_rate /\ funding_rate \cap {"required", "mandatory"} # {}
    IN  [is_sme |-> is_sme, encouraged |-> encouraged /\ is_sme, required |-> required]

\* apply_eligibility_filters with the SME requirement made binding
apply_eligibility_filters_sme(call_data, company_profile) ==
    [type_ok |-> check_organization_type(call_data, company_profile),
     country_ok |-> check_country_eligibility(call_data, company_profile),
     budget_ok |-> check_budget_eligibility(call_data, company_profile),
     trl_ok |-> check_trl_compatibility(call_data, company_profile),
     consortium_ok |-> check_consortium_feasibility(call_data, company_profile),
     sme_encouraged |-> check_sme_status(call_data, company_profile).encouraged,
     sme_required |-> check_sme_status(call_data, company_profile).required,
     all_passed |-> /\ check_organization_type(call_data, company_profile)
                    /\ check_country_eligibility(call_data, company_profile)
                    /\ check_budget_eligibility(call_data, company_profile)
                    /\ check_trl_compatibility(call_data, company_profile)
                    /\ check_consortium_feasibility(call_data, company_profile)
                    /\ (check_sme_status(call_data, company_profile).required
                          => check_sme_status(call_data, company_profile).is_sme)]

apply_eligibility_filters(call_data, company_profile) ==
    LET type_ok == check_organization_type(call_data, company_profile)
        country_ok == check_country_eligibility(call_data, company_profile)
        budget_ok == check_budget_eligibility(call_data, company_profile)
        trl_ok == check_trl_compatibility(call_data, company_profile)
        consortium_ok == check_consortium_feasibility(call_data, company_profile)
        sme_status == check_sme_status(call_data, company_profile)
    IN  [type_ok |-> type_ok,
         country_ok |-> country_ok,
         budget_ok |-> budget_ok,
         trl_ok |-> trl_ok,
         consortium_ok |-> consortium_ok,
         sme_encouraged |-> sme_status.encouraged,
         sme_required |-> sme_status.required,
         all_passed |-> type_ok /\ country_ok /\ budget_ok /\ trl_ok /\ consortium_ok]

(* ------------- apply_eligibility_filters called directly -------------- *)

\* the funding_rate texts of the records
FundingRates ==
    {Absent(""), Given("SME participation encouraged"), Given("SMEs required"),
     Given("high funding rate")}

\* records: every key the filters read is absent, empty, or given a value
EligibilityRecords ==
    [eligible_organization_types : {Absent({}), Given({}), Given({"sme"}), Given({"LARGE"})},
     eligible_countries :
         {Absent({}), Given({}), Given({"EU"}), Given({"Germany"}), Given({" Bulgaria "})},
     budget_per_project :
         {Absent(EmptyRange), Given(EmptyRange), Given(Range(100, 500)),
          Given(Range(3000, 5000))},
     trl : {Absent(""), Given(""), Given("4-7"), Given("9"), Given("n/a")},
     consortium :
         {Absent(EmptyConsortium), Given(EmptyConsortium), Given(Consortium(3, 3)),
          Given(Consortium(11, 3))},
     funding_rate : FundingRates]

\* company profiles: what the filters read of them
EligibilityProfiles ==
    {[type |-> t, country |-> c, budget_range |-> b,
      past_eu_projects |-> h[1], employees |-> h[2]] :
        t \in {"sme", "Large"}, c \in {"Bulgaria", "Norway"},
        b \in {EmptyRange, Range(50, 1000)}, h \in {<<0, 10>>, <<1, 10>>, <<0, 60>>}}

InitEligibility ==
    /\ create_initial_state(CHOOSE c \in CompanyInputs : c.shape = "empty")
    /\ pc = "eligibility"
    /\ planner_runs = 0
    /\ planner_feedback_in = "none"
    /\ last_node = "none"
    /\ last_decision = "none"
    /\ reflect_in = NoReflectIn
    /\ reflect_out = "none"
    /\ analyzed_history = {}
    /\ record_faults = <<>>
    /\ eligibility_in \in [record : EligibilityRecords, profile : EligibilityProfiles]
    /\ eligibility_out = "none"
    /\ score_in = "none"
    /\ score_out = "none"
    /\ NoRepeatCall
    /\ NoStream

\* one call apply_eligibility_filters(call_data, company_profile)
eligibility_call ==
    /\ pc = "eligibility"
    /\ eligibility_out' = apply_eligibility_filters(eligibility_in.record,
                                                    eligibility_in.profile)
    /\ pc' = "eligibility_done"
    /\ UNCHANGED <<company_input, safety_check_passed, planner_iterations,
                   max_planner_iterations, scraper_plan, plan_approved, plan_feedback,
                   scraped_topics, retrieval_errors, analyzed_calls, analysis_summary,
                   final_report, current_step, workflow_status, error_message,
                   planner_runs, planner_feedback_in, last_node, last_decision,
                   reflect_in, reflect_out, analyzed_history, record_faults,
                   eligibility_in, score_in, repeat_vars, stream_vars, score_out>>

NextEligibility == eligibility_call

SpecEligibility == InitEligibility /\ [][NextEligibility]_vars

(* ------- budget and consortium checks over bounded integer ranges ------ *)

\* a record that leaves out every key the filters read
BareRecord ==
    [eligible_organization_types |-> Absent({}), eligible_countries |-> Absent({}),
     budget_per_project |-> Absent(EmptyRange), trl |-> Absent(""),
     consortium |-> Absent(EmptyConsortium), funding_rate |-> Absent("")]

\* a profile without a preferred budget range and without project history
BareProfile ==
    [type |-> "sme", country |-> "Bulgaria", budget_range |-> EmptyRange,
     past_eu_projects |-> 0, employees |-> 10]

\* every range min..max of whole amounts up to MaxBudget
BudgetRanges ==
    UNION {{Range(lo, hi) : hi \in lo..MaxBudget} : lo \in 0..MaxBudget}

BudgetInputs ==
    {[record |-> [BareRecord EXCEPT !.budget_per_project = b],
      profile |-> [BareProfile EXCEPT !.budget_range = p]] :
        b \in {Absent(EmptyRange), Given(EmptyRange)} \cup {Given(r) : r \in BudgetRanges},
        p \in {EmptyRange} \cup BudgetRanges}

\* consortium requirements and profiles on both sides of every threshold
ConsortiumInputs ==
    {[record |-> [BareRecord EXCEPT !.consortium = c],
      profile |-> [BareProfile EXCEPT !.past_eu_projects = h, !.employees = e]] :
        c \in {Absent(EmptyConsortium), Given(EmptyConsortium)}
              \cup {Given(Consortium(n, k)) : n \in {1, 2, 5, 6, 10, 11}, k \in {1, 5, 6}},
        h \in {0, 1}, e \in {49, 50}}

InitRanges ==
    /\ create_initial_state(CHOOSE c \in CompanyInputs : c.shape = "empty")
    /\ pc = "eligibility"
    /\ planner_runs = 0
    /\ planner_feedback_in = "none"
    /\ last_node = "none"
    /\ last_decision = "none"
    /\ reflect_in = NoReflectIn
    /\ reflect_out = "none"
    /\ analyzed_history = {}
    /\ record_faults = <<>>
    /\ eligibility_in \in BudgetInputs \cup ConsortiumInputs
    /\ eligibility_out = "none"
    /\ score_in = "none"
    /\ score_out = "none"
    /\ NoRepeatCall
    /\ NoStream

NextRanges == eligibility_call

SpecRanges == InitRanges /\ [][NextRanges]_vars

(* ------------------------ 5_analysis/scorer.py ------------------------ *)

\* Sub-scores are kept in thousandths (8.5 is 8500), the weights in percent
\* and the weighted totals in units of 0.00001 (10.0 is 1000000); the
\* rounded total is in tenths, like relevance_score.

Max(a, b) == IF a >= b THEN a ELSE b

\* score_call with a heavier domain weight
score_weights_heavy ==
    [domain_match |-> 40, keyword_match |-> 15, eligibility_fit |-> 20,
     budget_feasibility |-> 15, strategic_value |-> 10, deadline_comfort |-> 10]

\* score_call: the six weights of total_raw (percent)
score_weights ==
    [domain_match |-> 30, keyword_match |-> 15, eligibility_fit |-> 20,
     budget_feasibility |-> 15, strategic_value |-> 10, deadline_comfort |-> 10]

\* score_call: confidence_multiplier (percent)
confidence_multiplier(confidence) ==
    CASE confidence = "high" -> 100 [] confidence = "medium" -> 95
      [] confidence = "low" -> 90 [] OTHER -> 95

\* _assess_call_data_quality with "high" from five signals on
assess_call_data_quality_loose(call_data) ==
    LET signals_present ==
            (IF call_data.title # "" THEN 1 ELSE 0)
            + (IF call_data.description_len >= 80 THEN 1 ELSE 0)
            + (IF call_data.n_keywords >= 3 THEN 1 ELSE 0)
            + (IF call_data.n_required_domains >= 1 THEN 1 ELSE 0)
            + (IF call_data.budget_has_numbers THEN 1 ELSE 0)
            + (IF call_data.deadline # "" THEN 1 ELSE 0)
    IN  [signals_present |-> signals_present,
         level |-> IF signals_present >= 5 THEN "high"
                   ELSE IF signals_present >= 3 THEN "medium" ELSE "low"]

\* _assess_call_data_quality: coverage >= 0.84 is 100 * present >= 84 * total
assess_call_data_quality(call_data) ==
    LET signals_total == 6
        signals_present ==
            (IF call_data.title # "" THEN 1 ELSE 0)
            + (IF call_data.description_len >= 80 THEN 1 ELSE 0)
            + (IF call_data.n_keywords >= 3 THEN 1 ELSE 0)
            + (IF call_data.n_required_domains >= 1 THEN 1 ELSE 0)
            + (IF call_data.budget_has_numbers THEN 1 ELSE 0)
            + (IF call_data.deadline # "" THEN 1 ELSE 0)
    IN  [signals_present |-> signals_present,
         level |-> IF 100 * signals_present >= 84 * signals_total THEN "high"
                   ELSE IF 100 * signals_present >= 50 * signals_total THEN "medium"
                   ELSE "low"]

\* _apply_quality_penalty
apply_quality_penalty(total_raw, level) ==
    IF level = "high" THEN Max(100000, Min(1000000, total_raw))
    ELSE LET penalty == IF level = "medium" THEN 30000 ELSE 80000
             adjusted == total_raw - penalty
         IN  Max(100000, Min(1000000, adjusted))

\* round(x, 1) of a non-negative x, ties to even; the result is in tenths
RoundTenths(x) ==
    LET q == x \div 10000
        r == x % 10000
    IN  IF r > 5000 \/ (r = 5000 /\ q % 2 = 1) THEN q + 1 ELSE q

\* _get_recommendation(total_score): the action of the label; total_score is
\* the rounded total, in tenths
get_recommendation(total_score) ==
    IF total_score >= 75 THEN "apply"
    ELSE IF total_score >= 55 THEN "consider"
    ELSE IF total_score >= 35 THEN "monitor"
    ELSE "skip"

\* score_call(call_data, company_profile, llm_insights): helpers holds what
\* the six helper functions selected by the mode return (in tenths)
score_call(call_data, helpers, llm_insights) ==
    LET use_llm == ~llm_insights.empty /\ llm_insights.analysis_method = "llm"
        multiplier == IF use_llm THEN confidence_multiplier(llm_insights.llm_confidence)
                      ELSE 100
        domain_score == Min(10000, helpers.domain * multiplier)
        keyword_score == Min(10000, helpers.keyword * multiplier)
        strategic_score == helpers.strategic * 100
        eligibility_score == helpers.eligibility * 100
        budget_score == helpers.budget * 100
        deadline_score == helpers.deadline * 100
        total_raw == domain_score * score_weights.domain_match
                     + keyword_score * score_weights.keyword_match
                     + eligibility_score * score_weights.eligibility_fit
                     + budget_score * score_weights.budget_feasibility
                     + strategic_score * score_weights.strategic_value
                     + deadline_score * score_weights.deadline_comfort
        quality == assess_call_data_quality(call_data)
        adjusted == apply_quality_penalty(total_raw, quality.level)
    IN  [total |-> RoundTenths(adjusted),
         recommendation |-> get_recommendation(RoundTenths(adjusted)),
         total_raw |-> total_raw,
         adjusted |-> adjusted,
         weights |-> score_weights,
         scoring_method |-> IF use_llm THEN "llm_enhanced" ELSE "rule_based",
         data_quality |-> quality]

(* ----------------------- score_call called directly -------------------- *)

\* llm_insights: {} or a dict with analysis_method and llm_confidence
ScoreInsights ==
    {[empty |-> TRUE, analysis_method |-> "none", llm_confidence |-> "none"],
     [empty |-> FALSE, analysis_method |-> "rule_based", llm_confidence |-> "none"],
     [empty |-> FALSE, analysis_method |-> "error", llm_confidence |-> "none"]}
    \cup [empty : {FALSE}, analysis_method : {"llm"},
          llm_confidence : {"high", "medium", "low", "none"}]

\* what _assess_call_data_quality reads of the record
ScoreCallData ==
    [title : {"", "t"}, description_len : {0, 79, 80}, n_keywords : {0, 2, 3},
     n_required_domains : {0, 1}, budget_has_numbers : BOOLEAN, deadline : {"", "N/A"}]

\* the least and the greatest value each helper function can return (tenths):
\* the _from_llm helpers in LLM mode, the rule-based ones otherwise
ScoreHelpers(use_llm) ==
    [domain : IF use_llm THEN {10, 100} ELSE {20, 90},
     keyword : IF use_llm THEN {25, 100} ELSE {30, 95},
     strategic : IF use_llm THEN {50, 90} ELSE {50, 85},
     eligibility : {55, 100}, budget : {25, 85}, deadline : {10, 90}]

InitScore ==
    /\ create_initial_state(CHOOSE c \in CompanyInputs : c.shape = "empty")
    /\ pc = "score"
    /\ planner_runs = 0
    /\ planner_feedback_in = "none"
    /\ last_node = "none"
    /\ last_decision = "none"
    /\ reflect_in = NoReflectIn
    /\ reflect_out = "none"
    /\ analyzed_history = {}
    /\ record_faults = <<>>
    /\ eligibility_in = "none"
    /\ eligibility_out = "none"
    /\ \E insights \in ScoreInsights, call_data \in ScoreCallData :
          \E helpers \in ScoreHelpers(~insights.empty /\ insights.analysis_method = "llm") :
             score_in = [call_data |-> call_data, helpers |-> helpers,
                         llm_insights |-> insights]
    /\ score_out = "none"
    /\ NoRepeatCall
    /\ NoStream

\* one call score_call(call_data, company_profile, llm_insights)
scoring_call ==
    /\ pc = "score"
    /\ score_out' = score_call(score_in.call_data, score_in.helpers, score_in.llm_insights)
    /\ pc' = "scored"
    /\ UNCHANGED <<company_input, safety_check_passed, planner_iterations,
                   max_planner_iterations, scraper_plan, plan_approved, plan_feedback,
                   scraped_topics, retrieval_errors, analyzed_calls, analysis_summary,
                   final_report, current_step, workflow_status, error_message,
                   planner_runs, planner_feedback_in, last_node, last_decision,
                   reflect_in, reflect_out, analyzed_history, record_faults,
                   eligibility_in, eligibility_out, score_in, repeat_vars, stream_vars>>

NextScore == scoring_call

SpecScore == InitScore /\ [][NextScore]_vars

(* ---------------- score_call called twice on one input ---------------- *)

\* The date a deadline text holds, as a day number counted like clock:
\* day 0 is 31 December 2026; texts without "<day> <Month> <year>" hold none.
deadline_date(deadline_str) ==
    CASE deadline_str = "2 January 2027" -> [found |-> TRUE, day |-> 2]
      [] deadline_str = "16 January 2027" -> [found |-> TRUE, day |-> 16]
      [] OTHER -> [found |-> FALSE, day |-> 0]

\* _score_deadline_comfort(call_data) when datetime.now() falls on day now
\* (in tenths); the deadline is midnight, so a call during day now sees
\* (deadline_date - now).days = day - now - 1
score_deadline_comfort(call_data, now) ==
    LET date_match == deadline_date(call_data.deadline)
        days_until == date_match.day - now - 1
    IN  IF call_data.deadline = "" THEN 50
        ELSE IF ~date_match.found THEN 50
        ELSE IF days_until < 0 THEN 10
        ELSE IF days_until < 14 THEN 30
        ELSE IF days_until < 30 THEN 45
        ELSE IF days_until < 60 THEN 65
        ELSE IF days_until < 120 THEN 80
        ELSE 90

\* score_call invoked while datetime.now() falls on day now: helpers holds
\* what the five other helper functions return
score_call_at(call_data, helpers, llm_insights, now) ==
    score_call(call_data,
               [domain |-> helpers.domain, keyword |-> helpers.keyword,
                strategic |-> helpers.strategic, eligibility |-> helpers.eligibility,
                budget |-> helpers.budget,
                deadline |-> score_deadline_comfort(call_data, now)],
               llm_insights)

\* what the helper functions that do not read the deadline can return
OtherHelpers(use_llm) ==
    {[domain |-> h.domain, keyword |-> h.keyword, strategic |-> h.strategic,
      eligibility |-> h.eligibility, budget |-> h.budget] : h \in ScoreHelpers(use_llm)}

\* records with and without a dated deadline
DatedCallData ==
    [title : {"t"}, description_len : {80}, n_keywords : {3},
     n_required_domains : {0, 1}, budget_has_numbers : BOOLEAN,
     deadline : {"", "N/A", "2 January 2027", "16 January 2027"}]

InitRepeat ==
    /\ create_initial_state(CHOOSE c \in CompanyInputs : c.shape = "empty")
    /\ pc = "score"
    /\ planner_runs = 0
    /\ planner_feedback_in = "none"
    /\ last_node = "none"
    /\ last_decision = "none"
    /\ reflect_in = NoReflectIn
    /\ reflect_out = "none"
    /\ analyzed_history = {}
    /\ record_faults = <<>>
    /\ eligibility_in = "none"
    /\ eligibility_out = "none"
    /\ \E insights \in ScoreInsights, call_data \in DatedCallData :
          \E helpers \in OtherHelpers(~insights.empty /\ insights.analysis_method = "llm") :
             score_in = [call_data |-> call_data, helpers |-> helpers,
                         llm_insights |-> insights]
    /\ score_out = "none"
    /\ NoRepeatCall
    /\ NoStream

\* a day passes
clock_tick ==
    /\ clock < MaxClock
    /\ clock' = clock + 1
    /\ UNCHANGED <<workflow_vars, score_out_again, stream_vars>>

\* the first call score_call(call_data, company_profile, llm_insights)
score_first ==
    /\ pc = "score"
    /\ score_out' = score_call_at(score_in.call_data, score_in.helpers,
                                  score_in.llm_insights, clock)
    /\ pc' = "score_again"
    /\ UNCHANGED <<company_input, safety_check_passed, planner_iterations,
                   max_planner_iterations, scraper_plan, plan_approved, plan_feedback,
                   scraped_topics, retrieval_errors, analyzed_calls, analysis_summary,
                   final_report, current_step, workflow_status, error_message,
                   planner_runs, planner_feedback_in, last_node, last_decision,
                   reflect_in, reflect_out, analyzed_history, record_faults,
                   eligibility_in, eligibility_out, score_in, repeat_vars, stream_vars>>

\* the second call, with the same arguments
score_second ==
    /\ pc = "score_again"
    /\ score_out_again' = score_call_at(score_in.call_data, score_in.helpers,
                                        score_in.llm_insights, clock)
    /\ pc' = "scored_twice"
    /\ UNCHANGED <<company_input, safety_check_passed, planner_iterations,
                   max_planner_iterations, scraper_plan, plan_approved, plan_feedback,
                   scraped_topics, retrieval_errors, analyzed_calls, analysis_summary,
                   final_report, current_step, workflow_status, error_message,
                   planner_runs, planner_feedback_in, last_node, last_decision,
                   reflect_in, reflect_out, analyzed_history, record_faults,
                   eligibility_in, eligibility_out, score_in, score_out, clock,
                   stream_vars>>

NextRepeat ==
    \/ clock_tick
    \/ score_first
    \/ score_second

SpecRepeat == InitRepeat /\ [][NextRepeat]_vars

(* ---------------------------- api/routes.py ---------------------------- *)

\* builtins.print after a thread of run r has installed its patched_print
patched_print(r) == [kind |-> "patched", run |-> r]

\* The queues a marker message reaches when it is printed through p:
\* patched_print of a run first calls the original_print that run saved and
\* then puts the progress item on that run's progress_queue.
RECURSIVE print_targets(_, _)
print_targets(p, saved) ==
    IF p.kind = "builtin" THEN {}
    ELSE {p.run} \cup print_targets(saved[p.run], saved)

\* the progress item of the n-th marker message printed by the workflow of
\* run r (n = 0: the item the thread puts itself before it loads the agent)
progress_item(r, n) == [type |-> "progress", origin |-> r, n |-> n]

\* {"type": "error", "data": str(e)}
error_item(r) == [type |-> "error", origin |-> r, n |-> 0]

no_result == [result |-> "none", error |-> "none"]

at(r, where) == thread_pc[r].at = where

goto(r, where) == thread_pc' = [thread_pc EXCEPT ![r].at = where]

\* progress_queue.put(item) on the queue of every run in targets
put(targets, item) ==
    /\ progress_queue' = [k \in DOMAIN progress_queue |->
                            IF k \in targets THEN Append(progress_queue[k], item)
                            ELSE progress_queue[k]]
    /\ put_history' = [k \in DOMAIN put_history |->
                         IF k \in targets
                         THEN Append(put_history[k],
                                     [item |-> item,
                                      before_exit |-> thread_pc[k].at # "exited"])
                         ELSE put_history[k]]

\* run_workflow_with_progress: the initial progress item, then load_master_agent
thread_start ==
    \E r \in DOMAIN thread_pc :
        /\ at(r, "start")
        /\ put({r}, progress_item(r, 0))
        /\ \/ goto(r, "save_print")
           \/ goto(r, "set_error")            \* load_master_agent raises
        /\ UNCHANGED <<workflow_vars, repeat_vars, builtins_print, original_print,
                       result_holder, stream_pc, stream_events>>

\* original_print = builtins.print
thread_save_print ==
    \E r \in DOMAIN thread_pc :
        /\ at(r, "save_print")
        /\ original_print' = [original_print EXCEPT ![r] = builtins_print]
        /\ goto(r, "patch_print")
        /\ UNCHANGED <<workflow_vars, repeat_vars, builtins_print, progress_queue,
                       result_holder, stream_pc, stream_events, put_history>>

\* builtins.print = patched_print
thread_patch_print ==
    \E r \in DOMAIN thread_pc :
        /\ at(r, "patch_print")
        /\ builtins_print' = patched_print(r)
        /\ goto(r, "workflow")
        /\ UNCHANGED <<workflow_vars, repeat_vars, original_print, progress_queue,
                       result_holder, stream_pc, stream_events, put_history>>

\* master_agent.run_workflow prints a progress marker through builtins.print
workflow_prints ==
    \E r \in DOMAIN thread_pc :
        /\ at(r, "workflow")
        /\ thread_pc[r].printed < MaxPrints
        /\ put(print_targets(builtins_print, original_print),
               progress_item(r, thread_pc[r].printed + 1))
        /\ thread_pc' = [thread_pc EXCEPT ![r].printed = @ + 1]
        /\ UNCHANGED <<workflow_vars, repeat_vars, builtins_print, original_print,
                       result_holder, stream_pc, stream_events>>

\* result = master_agent.run_workflow(...); result_holder["result"] = result
workflow_returns ==
    \E r \in DOMAIN thread_pc :
        /\ at(r, "workflow")
        /\ result_holder' = [result_holder EXCEPT ![r].result = "state"]
        /\ goto(r, "restore_returned")
        /\ UNCHANGED <<workflow_vars, repeat_vars, builtins_print, original_print,
                       progress_queue, stream_pc, stream_events, put_history>>

\* master_agent.run_workflow raises
workflow_raises ==
    \E r \in DOMAIN thread_pc :
        /\ at(r, "workflow")
        /\ goto(r, "restore_raised")
        /\ UNCHANGED <<workflow_vars, repeat_vars, builtins_print, original_print,
                       progress_queue, result_holder, stream_pc, stream_events,
                       put_history>>

\* finally: builtins.print = original_print
thread_restore_print ==
    \E r \in DOMAIN thread_pc :
        /\ at(r, "restore_returned") \/ at(r, "restore_raised")
        /\ builtins_print' = original_print[r]
        /\ IF at(r, "restore_returned") THEN goto(r, "exiting") ELSE goto(r, "set_error")
        /\ UNCHANGED <<workflow_vars, repeat_vars, original_print, progress_queue,
                       result_holder, stream_pc, stream_events, put_history>>

\* except Exception: result_holder["error"] = str(e)
thread_set_error ==
    \E r \in DOMAIN thread_pc :
        /\ at(r, "set_error")
        /\ result_holder' = [result_holder EXCEPT ![r].error = "error"]
        /\ goto(r, "put_error")
        /\ UNCHANGED <<workflow_vars, repeat_vars, builtins_print, original_print,
                       progress_queue, stream_pc, stream_events, put_history>>

\* progress_queue.put({"type": "error", "data": str(e)})
thread_put_error ==
    \E r \in DOMAIN thread_pc :
        /\ at(r, "put_error")
        /\ put({r}, error_item(r))
        /\ goto(r, "exiting")
        /\ UNCHANGED <<workflow_vars, repeat_vars, builtins_print, original_print,
                       result_holder, stream_pc, stream_events>>

\* the thread function returns: workflow_thread.is_alive() is False from here
thread_exit ==
    \E r \in DOMAIN thread_pc :
        /\ at(r, "exiting")
        /\ goto(r, "exited")
        /\ UNCHANGED <<workflow_vars, repeat_vars, builtins_print, original_print,
                       progress_queue, result_holder, stream_pc, stream_events,
                       put_history>>

(* ------------- two /search/stream requests at the same time ------------ *)

Runs == {1, 2}

\* the request whose response is followed
StreamRuns == {1}

\* the workflow threads of the requests in runs have been started
StreamStarted(runs, streams) ==
    /\ builtins_print = builtin_print
    /\ original_print = [r \in runs |-> builtin_print]
    /\ thread_pc = [r \in runs |-> [at |-> "start", printed |-> 0]]
    /\ progress_queue = [r \in runs |-> <<>>]
    /\ result_holder = [r \in runs |-> no_result]
    /\ stream_pc = [r \in streams |-> "initial"]
    /\ stream_events = [r \in streams |-> <<>>]
    /\ put_history = [r \in runs |-> <<>>]

InitPrint ==
    /\ create_initial_state(CHOOSE c \in CompanyInputs : c.shape = "empty")
    /\ pc = "stream"
    /\ planner_runs = 0
    /\ planner_feedback_in = "none"
    /\ last_node = "none"
    /\ last_decision = "none"
    /\ reflect_in = NoReflectIn
    /\ reflect_out = "none"
    /\ analyzed_history = {}
    /\ record_faults = <<>>
    /\ NoDirectCalls
    /\ NoRepeatCall
    /\ StreamStarted(Runs, {})

NextPrint ==
    \/ thread_start
    \/ thread_save_print
    \/ thread_patch_print
    \/ workflow_prints
    \/ workflow_returns
    \/ workflow_raises
    \/ thread_restore_print
    \/ thread_set_error
    \/ thread_put_error
    \/ thread_exit

SpecPrint == InitPrint /\ [][NextPrint]_vars

(* ---------- the response of one of two /search/stream requests -------- *)

\* what event_stream yields: item is the queue item or result it was made
\* from, queued says that it was taken from progress_queue
stream_event(kind, item, queued) == [event |-> kind, item |-> item, queued |-> queued]

\* the data of the complete event, built from result_holder["result"]
complete_item(r) == [type |-> "complete", origin |-> r, n |-> 0]

yield(r, event) == stream_events' = [stream_events EXCEPT ![r] = Append(@, event)]

stream_goto(r, where) == stream_pc' = [stream_pc EXCEPT ![r] = where]

\* event_stream without the return after the error event
stream_after_error_continue == "drain"

\* where event_stream goes after it has yielded the error event of an error
\* item: it returns
stream_after_error == "done"

\* event_stream: the initial progress event, yielded before the loop
stream_initial ==
    \E r \in DOMAIN stream_pc :
        /\ stream_pc[r] = "initial"
        /\ yield(r, stream_event("progress", progress_item(r, 0), FALSE))
        /\ stream_goto(r, "check_alive")
        /\ UNCHANGED <<workflow_vars, repeat_vars, builtins_print, original_print,
                       thread_pc, progress_queue, result_holder, put_history>>

\* while workflow_thread.is_alive() or ...: the left operand
stream_check_alive ==
    \E r \in DOMAIN stream_pc :
        /\ stream_pc[r] = "check_alive"
        /\ IF thread_pc[r].at # "exited" THEN stream_goto(r, "drain")
           ELSE stream_goto(r, "check_empty")
        /\ UNCHANGED <<workflow_vars, repeat_vars, builtins_print, original_print,
                       thread_pc, progress_queue, result_holder, stream_events,
                       put_history>>

\* ... or not progress_queue.empty(): evaluated when the thread is not alive
stream_check_empty ==
    \E r \in DOMAIN stream_pc :
        /\ stream_pc[r] = "check_empty"
        /\ IF Len(progress_queue[r]) > 0 THEN stream_goto(r, "drain")
           ELSE stream_goto(r, "after_loop")
        /\ UNCHANGED <<workflow_vars, repeat_vars, builtins_print, original_print,
                       thread_pc, progress_queue, result_holder, stream_events,
                       put_history>>

\* while not progress_queue.empty(): update = progress_queue.get_nowait();
\* an error item is yielded as the error event and ends the generator
stream_get ==
    \E r \in DOMAIN stream_pc :
        /\ stream_pc[r] = "drain"
        /\ Len(progress_queue[r]) > 0
        /\ progress_queue' = [progress_queue EXCEPT ![r] = Tail(@)]
        /\ IF Head(progress_queue[r]).type = "error"
           THEN /\ yield(r, stream_event("error", Head(progress_queue[r]), TRUE))
                /\ stream_goto(r, stream_after_error)
           ELSE /\ yield(r, stream_event("progress", Head(progress_queue[r]), TRUE))
                /\ UNCHANGED stream_pc
        /\ UNCHANGED <<workflow_vars, repeat_vars, builtins_print, original_print,
                       thread_pc, result_holder, put_history>>

\* the queue is empty: await asyncio.sleep(0.1), then the outer condition
stream_sleep ==
    \E r \in DOMAIN stream_pc :
        /\ stream_pc[r] = "drain"
        /\ Len(progress_queue[r]) = 0
        /\ stream_goto(r, "check_alive")
        /\ UNCHANGED <<workflow_vars, repeat_vars, builtins_print, original_print,
                       thread_pc, progress_queue, result_holder, stream_events,
                       put_history>>

\* after the loop: the error event, the complete event, or nothing
stream_finish ==
    \E r \in DOMAIN stream_pc :
        /\ stream_pc[r] = "after_loop"
        /\ IF result_holder[r].error # "none"
           THEN yield(r, stream_event("error", error_item(r), FALSE))
           ELSE IF result_holder[r].result # "none"
           THEN yield(r, stream_event("complete", complete_item(r), FALSE))
           ELSE UNCHANGED stream_events
        /\ stream_goto(r, "done")
        /\ UNCHANGED <<workflow_vars, repeat_vars, builtins_print, original_print,
                       thread_pc, progress_queue, result_holder, put_history>>

InitStream ==
    /\ create_initial_state(CHOOSE c \in CompanyInputs : c.shape = "empty")
    /\ pc = "stream"
    /\ planner_runs = 0
    /\ planner_feedback_in = "none"
    /\ last_node = "none"
    /\ last_decision = "none"
    /\ reflect_in = NoReflectIn
    /\ reflect_out = "none"
    /\ analyzed_history = {}
    /\ record_faults = <<>>
    /\ NoDirectCalls
    /\ NoRepeatCall
    /\ StreamStarted(Runs, StreamRuns)

NextStream ==
    \/ thread_start
    \/ thread_save_print
    \/ thread_patch_print
    \/ workflow_prints
    \/ workflow_returns
    \/ workflow_raises
    \/ thread_restore_print
    \/ thread_set_error
    \/ thread_put_error
    \/ thread_exit
    \/ stream_initial
    \/ stream_check_alive
    \/ stream_check_empty
    \/ stream_get
    \/ stream_sleep
    \/ stream_finish

SpecStream == InitStream /\ [][NextStream]_vars

(* =============================== claims ================================ *)

\* C1 (as claimed): in every run planner_node executes at most
\* max_planner_iterations times, whatever the Planner and the Retriever do.
C1_PlannerRunsBounded == planner_runs <= max_planner_iterations

\* C2 (as claimed): planner_iterations equals the number of planner_node
\* executions of the run, whether or not the Planner call succeeded.
C2_CounterCountsEntries == planner_iterations = planner_runs

\* C3 (as claimed): once workflow_status is "failed" or "completed" no node
\* executes any more and workflow_status never changes.
C3_FailedCompletedTerminal ==
    [][(workflow_status \in {"failed", "completed"})
          => UNCHANGED <<workflow_status, last_node, pc>>]_vars

\* C4 (as claimed): a run in which the Retriever raised ends with status
\* "failed" and an error_message.
C4_RetrieverErrorFails ==
    (retrieval_errors > 0 /\ pc = "END")
        => (workflow_status = "failed" /\ error_message # "none")

\* C5: whenever analysis_node returns with the reflection decision finalize,
\* or while planner_iterations >= max_planner_iterations, it has approved the
\* plan and the run goes to the reporter, even on a refine decision.
C5_BoundOrFinalizeReports ==
    (last_node = "analysis"
     /\ (last_decision = "finalize" \/ planner_iterations >= max_planner_iterations))
        => (plan_approved /\ current_step = "reporting" /\ pc = "reporter")

\* C5 witness: a refine decision at the iteration bound went to the reporter
C5_Witness ==
    /\ last_node = "analysis"
    /\ last_decision = "refine"
    /\ planner_iterations >= max_planner_iterations
    /\ pc = "reporter"

InvalidProfile(c) ==
    \/ c.shape = "empty"
    \/ c.name_len = 0
    \/ c.desc_len < 20
    \/ c.n_domains = 0
    \/ c.employees < 1

\* C7 (as claimed): for every such profile, of either shape, Intake fails the
\* run with an error_message and planner_node never executes.
C7_IntakeRejectsInvalid ==
    (last_node # "none" /\ InvalidProfile(company_input))
        => (workflow_status = "failed" /\ error_message # "none"
            /\ planner_runs = 0 /\ pc = "END")

\* C8 (as claimed): reflect_on_results returns finalize whenever iteration >=
\* max_iterations, for every max_iterations the Controller can carry.
C8_BoundFinalizes ==
    (pc = "reflected" /\ reflect_in.iteration >= reflect_in.max_iterations)
        => reflect_out.decision = "finalize"

\* C9: with no results and iteration below the bound (3) reflect_on_results
\* returns expand, for every max_results and every portal list.
C9_ZeroResultsExpand ==
    (pc = "reflected" /\ Len(reflect_in.results) = 0
     /\ reflect_in.iteration < DefaultMaxIterations)
        => reflect_out.decision = "expand"

\* C9 witness: an empty batch at iteration 2 with no target portals gave expand
C9_Witness ==
    /\ pc = "reflected"
    /\ Len(reflect_in.results) = 0
    /\ reflect_in.iteration = 2
    /\ reflect_in.search_params.portals = {}
    /\ reflect_out.decision = "expand"

\* what the seven rules read, computed from the batch itself
FoundIn(in) == Len(in.results)
HighIn(in) == Cardinality({i \in 1..Len(in.results) : in.results[i].relevance_score >= 80})
MediumIn(in) ==
    Cardinality({i \in 1..Len(in.results) :
                    in.results[i].relevance_score >= 60 /\ in.results[i].relevance_score < 80})
AverageBelow4(in) ==
    SumScores([i \in 1..Len(in.results) |-> in.results[i].relevance_score])
        < 40 * Len(in.results)
CoverageBelowHalf(in) ==
    /\ in.search_params.portals # {}
    /\ 2 * Cardinality({in.results[i].portal : i \in 1..Len(in.results)} \ {""})
          < Cardinality(in.search_params.portals)
GoodQuality(in) == HighIn(in) >= 2 \/ (HighIn(in) >= 1 /\ MediumIn(in) >= 3)

\* the seven-rule priority list; quantity_low is the quantity test of rule 5
SevenRules(in, quantity_low) ==
    IF in.iteration >= 3 THEN "finalize"
    ELSE IF FoundIn(in) = 0 THEN "expand"
    ELSE IF AverageBelow4(in) /\ FoundIn(in) >= 5 THEN "refine"
    ELSE IF CoverageBelowHalf(in) /\ in.iteration < 2 THEN "expand"
    ELSE IF GoodQuality(in) /\ quantity_low /\ in.iteration < 2 THEN "expand"
    ELSE IF GoodQuality(in) /\ FoundIn(in) >= Min(in.search_params.max_results, 10)
    THEN "finalize"
    ELSE "finalize"

\* C10 (as claimed): the decision is that of the seven rules with rule 5
\* testing total_found < target_quantity.
C10_SevenRulesAsStated ==
    pc = "reflected"
        => reflect_out.decision
             = SevenRules(reflect_in, FoundIn(reflect_in) < reflect_in.search_params.max_results)

\* C10 (amended): the decision is that of the seven rules with rule 5 testing
\* total_found < min(target_quantity, 10).
C10_SevenRulesAmended ==
    pc = "reflected"
        => reflect_out.decision
             = SevenRules(reflect_in,
                          FoundIn(reflect_in) < Min(reflect_in.search_params.max_results, 10))

\* C10 witness: good quality, ten results of thirty wanted, early iteration,
\* full coverage: rule 6 finalizes where the stated rule 5 would expand
C10_Witness ==
    /\ pc = "reflected"
    /\ reflect_in.iteration < 2
    /\ GoodQuality(reflect_in)
    /\ ~CoverageBelowHalf(reflect_in)
    /\ ~AverageBelow4(reflect_in)
    /\ FoundIn(reflect_in) >= 10
    /\ FoundIn(reflect_in) < reflect_in.search_params.max_results
    /\ reflect_out.decision = "finalize"
    /\ reflect_out.rule = 6

\* the batch of C11: five records, each scored 8.5 or more, that together
\* represent every target portal
FiveHighFullCoverage(in) ==
    /\ Len(in.results) = 5
    /\ \A i \in 1..Len(in.results) : in.results[i].relevance_score >= 85
    /\ \/ in.search_params.portals = {}
       \/ {in.results[i].portal : i \in 1..Len(in.results)} \ {""} = in.search_params.portals

\* C11 (as claimed): on such a batch reflect_on_results returns finalize with
\* stats.high_scores = 5, whatever the iteration and the target quantity.
C11_FiveHighFinalizes ==
    (pc = "reflected" /\ FiveHighFullCoverage(reflect_in))
        => (reflect_out.decision = "finalize" /\ reflect_out.stats.high_scores = 5)

\* C11 (amended): on such a batch stats.high_scores = 5, and the decision is
\* finalize when iteration >= 2 or min(target quantity, 10) <= 5; with
\* iteration < 2 and a larger target it is expand (rule 5).
C11_FiveHighFinalizesLateOrSmallTarget ==
    (pc = "reflected" /\ FiveHighFullCoverage(reflect_in))
        => /\ reflect_out.stats.high_scores = 5
           /\ reflect_out.decision =
                 IF reflect_in.iteration < 2
                    /\ 5 < Min(reflect_in.search_params.max_results, 10)
                 THEN "expand" ELSE "finalize"

\* C11 witness: five records of 8.5 over both target portals at iteration 2
\* with thirty wanted: finalize, five high scores
C11_Witness ==
    /\ pc = "reflected"
    /\ FiveHighFullCoverage(reflect_in)
    /\ reflect_in.search_params.portals = Portals
    /\ reflect_in.search_params.max_results = 30
    /\ reflect_in.iteration = 2
    /\ reflect_out.decision = "finalize"
    /\ reflect_out.stats.high_scores = 5

\* C12: after analysis_node has seen an empty scraped_topics list, below the
\* bound plan_approved is false, plan_feedback is set and current_step is
\* "planning"; at or above the bound plan_approved is true, analyzed_calls is
\* empty and current_step is "reporting"; the run goes to the node that
\* current_step names.
C12_EmptyBatchLoopsOrReports ==
    (last_node = "analysis" /\ Len(scraped_topics) = 0)
        => IF planner_iterations < max_planner_iterations
           THEN /\ ~plan_approved
                /\ plan_feedback # "none"
                /\ current_step = "planning"
                /\ pc = "planner"
           ELSE /\ plan_approved
                /\ analyzed_calls = <<>>
                /\ current_step = "reporting"
                /\ pc = "reporter"

\* C12 witness: an empty batch below the bound sent the run back to planning
C12_Witness ==
    /\ last_node = "analysis"
    /\ Len(scraped_topics) = 0
    /\ planner_iterations < max_planner_iterations
    /\ plan_feedback = "no_topics"
    /\ current_step = "planning"
    /\ pc = "planner"

\* C13: after analysis_node has analysed a non-empty scraped_topics list with
\* a reflection decision other than refine, plan_approved is true,
\* current_step is "reporting" and analyzed_calls holds exactly one analyzed
\* call per scraped topic, in order, for every planner_iterations.
C13_NonEmptyNotPoorReports ==
    (last_node = "analysis" /\ Len(scraped_topics) > 0 /\ last_decision # "refine")
        => /\ plan_approved
           /\ current_step = "reporting"
           /\ Len(analyzed_calls) = Len(scraped_topics)
           /\ \A i \in 1..Len(scraped_topics) : analyzed_calls[i].id = scraped_topics[i].id

\* C13 witness: two topics at planner_iterations 0, decision expand, approved
C13_Witness ==
    /\ last_node = "analysis"
    /\ planner_iterations = 0
    /\ Len(scraped_topics) = 2
    /\ last_decision = "expand"
    /\ plan_approved
    /\ current_step = "reporting"
    /\ Len(analyzed_calls) = 2

\* C14 (as claimed): the analyzed_calls handed to the Reporter holds the
\* analyzed record of every topic analysed in any iteration of the run, with
\* at most one entry per identifier.
C14_AnalyzedCallsAccumulate ==
    pc = "reporter"
        => /\ analyzed_history \subseteq {analyzed_calls[i].id : i \in 1..Len(analyzed_calls)}
           /\ \A i, j \in 1..Len(analyzed_calls) :
                  i # j => analyzed_calls[i].id # analyzed_calls[j].id

\* analysis_node has been run on the non-empty batch in scraped_topics
BatchEvaluated == Len(scraped_topics) > 0 /\ (last_node = "analysis" \/ pc = "raised")

\* C15 (as claimed): a record whose Reasoning Service call failed (raised or
\* not configured) is scored in rule_based mode and appears in the iteration's
\* analyzed_calls, and a record whose call succeeded is scored llm_enhanced
\* all the same.
C15_ReasoningFailureIsolated ==
    BatchEvaluated
        => \A i \in 1..Len(scraped_topics) :
              /\ OutcomeAt(i) \in {"llm_unconfigured", "llm_raises"}
                    => /\ i <= Len(analyzed_calls)
                       /\ analyzed_calls[i].id = scraped_topics[i].id
                       /\ analyzed_calls[i].scoring_method = "rule_based"
              /\ OutcomeAt(i) = "llm_ok"
                    => /\ i <= Len(analyzed_calls)
                       /\ analyzed_calls[i].id = scraped_topics[i].id
                       /\ analyzed_calls[i].scoring_method = "llm_enhanced"

\* C16 (as claimed): no failure while evaluating one record aborts the batch:
\* analysis_node returns with one analyzed entry per retrieved record and a
\* reflection, and a record whose scoring failed carries the total 5.0.
C16_RecordFailureIsolated ==
    BatchEvaluated
        => /\ pc # "raised"
           /\ Len(analyzed_calls) = Len(scraped_topics)
           /\ last_decision # "none"
           /\ \A i \in 1..Len(scraped_topics) :
                  OutcomeAt(i) = "score_raises" => analyzed_calls[i].relevance_score = 50

\* C17: all_passed is the conjunction of the five binding checks, and the
\* record with any other funding_rate text (hence any other sme_encouraged and
\* sme_required) has the same all_passed.
C17_AllPassedIsFiveChecks ==
    pc = "eligibility_done"
        => /\ eligibility_out.all_passed
                = (eligibility_out.type_ok /\ eligibility_out.country_ok
                   /\ eligibility_out.budget_ok /\ eligibility_out.trl_ok
                   /\ eligibility_out.consortium_ok)
           /\ \A f \in FundingRates :
                 apply_eligibility_filters(
                     [eligibility_in.record EXCEPT !.funding_rate = f],
                     eligibility_in.profile).all_passed = eligibility_out.all_passed

\* C17 witness: an SME is required, the company is not one, all five checks pass
C17_Witness ==
    /\ pc = "eligibility_done"
    /\ eligibility_out.sme_required
    /\ Upper(eligibility_in.profile.type) = "LARGE"
    /\ eligibility_in.record.eligible_organization_types.value # {}
    /\ eligibility_out.all_passed

\* the record leaves a key out, or gives it the empty value
Omits(field, empty) == ~field.present \/ field.value = empty

C19_WeightsSumAndTotalInRange ==
    pc = "scored"
        => /\ score_out.weights.domain_match + score_out.weights.keyword_match
              + score_out.weights.eligibility_fit + score_out.weights.budget_feasibility
              + score_out.weights.strategic_value + score_out.weights.deadline_comfort = 100
           /\ score_out.total >= 10
           /\ score_out.total <= 100

\* C19 witness: LLM mode at low confidence with every helper at its least
\* value and a record without any quality signal: the total is 1.9
C19_Witness ==
    /\ pc = "scored"
    /\ score_out.scoring_method = "llm_enhanced"
    /\ score_in.llm_insights.llm_confidence = "low"
    /\ score_in.helpers = [domain |-> 10, keyword |-> 25, strategic |-> 50,
                           eligibility |-> 55, budget |-> 25, deadline |-> 10]
    /\ score_out.data_quality.signals_present = 0
    /\ score_out.total = 19

\* the number of the six quality signals the record shows
SignalsIn(call_data) ==
    Cardinality({k \in 1..6 :
        \/ k = 1 /\ call_data.title # ""
        \/ k = 2 /\ call_data.description_len >= 80
        \/ k = 3 /\ call_data.n_keywords >= 3
        \/ k = 4 /\ call_data.n_required_domains >= 1
        \/ k = 5 /\ call_data.budget_has_numbers
        \/ k = 6 /\ call_data.deadline # ""})

\* the penalty C20 states for a number of signals: 0.0 for six, 0.3 for three
\* to five, 0.8 below
StatedPenalty(signals) ==
    IF signals = 6 THEN 0 ELSE IF signals >= 3 THEN 30000 ELSE 80000

\* C20: the quality level is high for 6 of 6 signals, medium for 3 to 5 and
\* low for 0 to 2; the penalised total is the raw total minus exactly 0.0,
\* 0.3 or 0.8 for these levels; more signals never mean a larger penalty; and
\* the penalised total is never below 1.0.
C20_QualityPenalty ==
    pc = "scored"
        => LET signals == SignalsIn(score_in.call_data)
           IN  /\ score_out.data_quality.level
                    = (IF signals = 6 THEN "high"
                       ELSE IF signals >= 3 THEN "medium" ELSE "low")
               /\ score_out.total_raw - score_out.adjusted = StatedPenalty(signals)
               /\ \A more \in signals..6 :
                     score_out.total_raw
                       - apply_quality_penalty(score_out.total_raw,
                             IF more = 6 THEN "high"
                             ELSE IF more >= 3 THEN "medium" ELSE "low")
                     <= score_out.total_raw - score_out.adjusted
               /\ score_out.adjusted >= 100000

\* C20 witness: five of six signals (no deadline) is medium quality: 0.3 is
\* subtracted
C20_Witness ==
    /\ pc = "scored"
    /\ SignalsIn(score_in.call_data) = 5
    /\ score_in.call_data.deadline = ""
    /\ score_out.data_quality.level = "medium"
    /\ score_out.total_raw - score_out.adjusted = 30000

\* C21: the recommendation of a scored call follows the cut-offs of the
\* final total: apply from 8.0, consider from 6.0, monitor from 4.0, skip
\* below.
C21_RecommendationCutoffs ==
    pc = "scored" =>
        score_out.recommendation =
            (IF score_out.total >= 80 THEN "apply"
             ELSE IF score_out.total >= 60 THEN "consider"
             ELSE IF score_out.total >= 40 THEN "monitor"
             ELSE "skip")

\* C22: concurrent workflow runs share no mutable state: every progress item
\* on a run's queue was printed by that run's own workflow, and once all
\* workflow threads have finished builtins.print is the original function.
C22_RunsShareNothing ==
    /\ \A r \in DOMAIN put_history : \A i \in 1..Len(put_history[r]) :
          put_history[r][i].item.origin = r
    /\ (\A r \in DOMAIN thread_pc : thread_pc[r].at = "exited")
          => builtins_print = builtin_print

\* C23: scoring is deterministic: two invocations of score_call with the
\* same record, profile and insights return the same result, whenever they
\* are made.
C23_ScoringDeterministic ==
    pc = "scored_twice" => score_out_again = score_out

\* some amount lies in both ranges
RangesOverlap(a, b) ==
    \E x \in 0..MaxBudget : a.min <= x /\ x <= a.max /\ b.min <= x /\ x <= b.max

\* the record's range is no further than a factor 2 below or above the
\* preferred range
WithinFactorTwo(a, b) == 2 * a.max >= b.min /\ a.min <= 2 * b.max

BothRangesExist ==
    /\ eligibility_in.record.budget_per_project.present
    /\ ~eligibility_in.record.budget_per_project.value.empty
    /\ ~eligibility_in.profile.budget_range.empty

\* C24: when the record's budget range and the profile's preferred range
\* both exist, budget_ok is true exactly when the ranges overlap or lie
\* within a factor 2 of each other, for all integer ranges up to MaxBudget.
C24_BudgetOverlapOrFactorTwo ==
    (pc = "eligibility_done" /\ BothRangesExist) =>
        (eligibility_out.budget_ok <=>
            (\/ RangesOverlap(eligibility_in.record.budget_per_project.value,
                              eligibility_in.profile.budget_range)
             \/ WithinFactorTwo(eligibility_in.record.budget_per_project.value,
                                eligibility_in.profile.budget_range)))

\* a record range below the preferred one, apart by no more than a factor 2,
\* has passed the budget check
C24_Witness ==
    /\ pc = "eligibility_done"
    /\ BothRangesExist
    /\ ~RangesOverlap(eligibility_in.record.budget_per_project.value,
                      eligibility_in.profile.budget_range)
    /\ eligibility_out.budget_ok

\* what the record requires; a record without consortium data requires a
\* single applicant in a single country
RequiredPartners ==
    IF eligibility_in.record.consortium.present
       /\ ~eligibility_in.record.consortium.value.empty
    THEN eligibility_in.record.consortium.value.min_partners ELSE 1

RequiredCountries ==
    IF eligibility_in.record.consortium.present
       /\ ~eligibility_in.record.consortium.value.empty
    THEN eligibility_in.record.consortium.value.min_countries ELSE 1

\* the profile has prior project history, or 50 employees and a requirement
\* of at most 5 partners
ExperiencedOrLarge ==
    \/ eligibility_in.profile.past_eu_projects > 0
    \/ eligibility_in.profile.employees >= 50 /\ RequiredPartners <= 5

\* C25 as stated: consortium_ok is true for a single applicant, otherwise
\* true with project history or with 50 employees and at most 5 partners,
\* and false for every record that requires more than 10 partners or more
\* than 5 countries.
C25_ConsortiumAsStated ==
    pc = "eligibility_done" =>
        /\ RequiredPartners = 1 => eligibility_out.consortium_ok
        /\ (RequiredPartners # 1 /\ ExperiencedOrLarge) => eligibility_out.consortium_ok
        /\ (RequiredPartners > 10 \/ RequiredCountries > 5)
              => ~eligibility_out.consortium_ok

\* C25 amended: the rules apply in order; a requirement of more than 10
\* partners or more than 5 countries fails only when the record needs more
\* than one applicant and the profile has neither history nor the size for it.
C25_ConsortiumInOrder ==
    pc = "eligibility_done" =>
        /\ RequiredPartners = 1 => eligibility_out.consortium_ok
        /\ (RequiredPartners # 1 /\ ExperiencedOrLarge) => eligibility_out.consortium_ok
        /\ (RequiredPartners # 1 /\ ~ExperiencedOrLarge)
              => (eligibility_out.consortium_ok
                    <=> ~(RequiredPartners > 10 \/ RequiredCountries > 5))

\* a record that requires more than 10 partners has passed for a profile
\* with project history
C25_Witness ==
    /\ pc = "eligibility_done"
    /\ RequiredPartners > 10
    /\ eligibility_in.profile.past_eu_projects > 0
    /\ eligibility_out.consortium_ok

\* C26: in the compiled workflow the edge analysis -> planner is taken only
\* on an empty batch: retrieval hands over at most max_topics = 2 topics, the
\* refine rule needs 5, so no analysis_node of a run decides refine.
C26_BackEdgeOnlyOnEmptyBatch ==
    [][/\ last_decision' # "refine"
       /\ (pc = "analysis" /\ pc' = "planner")
             => (Len(scraped_topics) = 0 /\ plan_feedback' = "no_topics")]_vars

\* analysis_node has looped back to the planner
C26_Witness ==
    /\ last_node = "analysis"
    /\ pc = "planner"
    /\ plan_feedback = "no_topics"
    /\ Len(scraped_topics) = 0

\* C27: the decision analysis_node records in analysis_summary for a
\* non-empty batch while planner_iterations <= 1 is refine or expand, never
\* finalize: the analyzed calls carry no portal, so the coverage is 0.
C27_EarlyDecisionNeverFinalize ==
    [][(pc = "analysis" /\ last_node' = "analysis" /\ Len(scraped_topics) > 0
        /\ planner_iterations <= 1)
          => (/\ analysis_summary'.decision \in {"refine", "expand"}
              /\ \A i \in 1..Len(analyzed_calls') : analyzed_calls'[i].portal = "")]_vars

\* a batch of high scores only, analysed in the first iteration, was not
\* finalized
C27_Witness ==
    /\ last_node = "analysis"
    /\ planner_iterations <= 1
    /\ Len(analyzed_calls) >= 2
    /\ \A i \in 1..Len(analyzed_calls) : analyzed_calls[i].relevance_score >= HighCut
    /\ last_decision = "expand"

C29_ReporterOnceAndCompletes ==
    [][/\ (pc = "reporter" /\ pc' # pc)
             => (/\ final_report = "none"
                 /\ last_node = "analysis"
                 /\ plan_approved
                 /\ workflow_status' = "completed"
                 /\ final_report' # "none"
                 /\ pc' = "END")
       /\ final_report # "none" => final_report' = final_report
       /\ (workflow_status' = "completed") <=> (final_report' # "none")
       /\ (workflow_status = "completed") <=> (final_report # "none")]_vars

\* the reporter has stored the fallback report
C29_Witness ==
    /\ last_node = "reporter"
    /\ final_report = "fallback"
    /\ workflow_status = "completed"
    /\ pc = "END"

TerminalEvents(r) ==
    {i \in 1..Len(stream_events[r]) : stream_events[r][i].event \in {"error", "complete"}}

\* the progress items the workflow thread of r put on its queue (itself or
\* by a marker its workflow printed) before it exited
ProgressPutBeforeExit(r) ==
    {put_history[r][i].item : i \in {k \in 1..Len(put_history[r]) :
        /\ put_history[r][k].before_exit
        /\ put_history[r][k].item.type = "progress"
        /\ put_history[r][k].item.origin = r}}

\* the queue items the response of r has carried as progress events
ProgressYielded(r) ==
    {stream_events[r][i].item : i \in {k \in 1..Len(stream_events[r]) :
        stream_events[r][k].queued /\ stream_events[r][k].event = "progress"}}

\* C30: every response ends with exactly one terminal event (complete or
\* error), after all progress events, in every interleaving of the workflow
\* thread with the event_stream loop; no progress item the thread put on the
\* queue before it exits is lost and no error is reported twice.
C30_OneTerminalEventNothingLost ==
    \A r \in DOMAIN stream_pc :
        /\ Cardinality(TerminalEvents(r)) <= 1
        /\ TerminalEvents(r) # {}
              => (stream_pc[r] = "done" /\ Len(stream_events[r]) \in TerminalEvents(r))
        /\ stream_pc[r] = "done"
              => (/\ Cardinality(TerminalEvents(r)) = 1
                  /\ ProgressPutBeforeExit(r) \subseteq ProgressYielded(r))

\* the response ended with the error event taken from the queue, after the
\* progress events of the markers its workflow printed before it raised
C30_Witness ==
    \E r \in DOMAIN stream_pc :
        /\ stream_pc[r] = "done"
        /\ stream_events[r][Len(stream_events[r])].event = "error"
        /\ progress_item(r, 1) \in ProgressPutBeforeExit(r)
        /\ progress_item(r, 1) \in ProgressYielded(r)

====
